---- MODULE Spec2Model ----
(***************************************************************************)
(* A model of the audio-steganography backend: the MP3 container parser    *)
(* and writer (backend/mp3parser), the frame region analyzer, the extended *)
(* Vigenere cipher (backend/crypto), the two bitstream LSB engines         *)
(* (MP3AncillaryLSBSteganography and MP3LSBSteganography in backend/stego) *)
(* and the insert / extract handlers (backend/handlers).                   *)
(*                                                                         *)
(* Bytes are numbers in 0..255 and byte slices are sequences (1-based      *)
(* here, 0-based in the source).                                           *)
(***************************************************************************)
EXTENDS Integers, Sequences, FiniteSets, TLC

\* ------------------------------------------------------------------------
\* Bounds of the model
\* ------------------------------------------------------------------------

\* the largest number of frames of a carrier
MaxFrames == 2

\* the largest carrier length and count given to generatePositions directly
MaxPosLen == 4

\* the largest number of successive generatePositions calls on one engine
MaxCalls == 2

\* ------------------------------------------------------------------------
\* Generic helpers
\* ------------------------------------------------------------------------

Min(a, b) == IF a < b THEN a ELSE b

\* n copies of the byte b
Rep(b, n) == [i \in 1..n |-> b]

\* Go's s[from:to] on a sequence (0-based, half open)
Slice(s, from, to) == SubSeq(s, from + 1, to)

\* binary.BigEndian.PutUint32
PutUint32(n) ==
    << (n \div 16777216) % 256, (n \div 65536) % 256, (n \div 256) % 256, n % 256 >>

\* binary.BigEndian.Uint32 of the four bytes b.  The checker's integers are
\* 32-bit signed, so a value of 2^31 or more is reported as 2^31 - 1: every
\* comparison the source makes with it (> 255, > 10 MiB, > len) has the same
\* outcome for both.
Uint32(b) ==
    IF b[1] >= 128 THEN 2147483647
    ELSE b[1] * 16777216 + b[2] * 65536 + b[3] * 256 + b[4]

\* ------------------------------------------------------------------------
\* crypto/vigenere.go: the extended Vigenere cipher
\* ------------------------------------------------------------------------

Encrypt(key, plaintext) ==
    IF Len(key) = 0 THEN plaintext
    ELSE [i \in 1..Len(plaintext) |->
            (plaintext[i] + key[((i - 1) % Len(key)) + 1]) % 256]

\* a Decrypt that adds the key bytes as Encrypt does
DecryptAdding(key, ciphertext) ==
    IF Len(key) = 0 THEN ciphertext
    ELSE [i \in 1..Len(ciphertext) |->
            (ciphertext[i] + key[((i - 1) % Len(key)) + 1] + 256) % 256]

Decrypt(key, ciphertext) ==
    IF Len(key) = 0 THEN ciphertext
    ELSE [i \in 1..Len(ciphertext) |->
            (ciphertext[i] - key[((i - 1) % Len(key)) + 1] + 256) % 256]

ValidateKey(key) ==
    IF Len(key) = 0 THEN "key cannot be empty"
    ELSE IF Len(key) > 256 THEN "key length cannot exceed 256 characters"
    ELSE "ok"

\* ------------------------------------------------------------------------
\* stego: the bit codec
\* ------------------------------------------------------------------------

\* bits of each byte, least significant first
bytesToBitsLsbFirst(data) ==
    [k \in 1..(8 * Len(data)) |->
        (data[((k - 1) \div 8) + 1] \div (2 ^ ((k - 1) % 8))) % 2]

\* bits of each byte, most significant first
bytesToBits(data) ==
    [k \in 1..(8 * Len(data)) |->
        (data[((k - 1) \div 8) + 1] \div (2 ^ (7 - ((k - 1) % 8)))) % 2]

\* groups of 8 bits, most significant first; a trailing partial group is dropped
bitsToBytes(bits) ==
    [k \in 1..(Len(bits) \div 8) |->
          (bits[8 * k - 7] % 2) * 128 + (bits[8 * k - 6] % 2) * 64
        + (bits[8 * k - 5] % 2) * 32  + (bits[8 * k - 4] % 2) * 16
        + (bits[8 * k - 3] % 2) * 8   + (bits[8 * k - 2] % 2) * 4
        + (bits[8 * k - 1] % 2) * 2   + (bits[8 * k] % 2)]

\* ------------------------------------------------------------------------
\* The key-seeded PRNG.  The source uses math/rand seeded with the first
\* eight bytes of MD5(key); neither is part of the repository.  What the
\* engines rely on is that the generator is a deterministic state machine:
\* Seed fixes the state, every Intn advances it.  It is modelled as a
\* full-period linear congruential generator over 2^16 states, and the seed
\* as a polynomial hash of the key bytes.
\* ------------------------------------------------------------------------

RngModulus == 2 ^ 16

RECURSIVE HashKey(_, _)
HashKey(key, h) ==
    IF key = <<>> THEN h
    ELSE HashKey(Tail(key), (h * 31 + Head(key) + 7) % RngModulus)

generateSeed(key) == HashKey(key, 5381)

\* rng.Seed(seed) / rand.New(rand.NewSource(seed))
RngSeed(seed) == seed % RngModulus

\* one step of the generator
RngStep(st) == (st * 25173 + 13849) % RngModulus

\* rng.Intn(n): the advanced state and the value drawn from [0, n)
Intn(st, n) ==
    LET nx == RngStep(st) IN [rng |-> nx, val |-> (nx \div 16) % n]

\* an iteration that appends whatever is drawn, seen before or not
DrawStepRepeating(lp, d) ==
    [rng |-> d.rng, pos |-> Append(lp.pos, d.val), used |-> lp.used \cup {d.val}]

\* One iteration of the rejection-sampling loop shared by both engines,
\*   for len(positions) < limit {
\*       pos := rng.Intn(dataLen); if !used[pos] { append; used[pos] = true } }
\* on the loop state lp = [rng, pos, used], d being what Intn returned
DrawStep(lp, d) ==
    IF d.val \in lp.used
    THEN [lp EXCEPT !.rng = d.rng]
    ELSE [rng |-> d.rng, pos |-> Append(lp.pos, d.val), used |-> lp.used \cup {d.val}]

\* one iteration; a finished loop is left as it is
DrawIteration(lp, dataLen, limit) ==
    IF Len(lp.pos) >= limit THEN lp ELSE DrawStep(lp, Intn(lp.rng, dataLen))

\* 2^k successive iterations of the loop (evaluated as two halves, so that
\* the evaluation depth stays logarithmic in the number of iterations)
RECURSIVE DrawRun(_, _, _, _)
DrawRun(k, lp, dataLen, limit) ==
    IF Len(lp.pos) >= limit THEN lp
    ELSE IF k = 0 THEN DrawIteration(lp, dataLen, limit)
    ELSE DrawRun(k - 1, DrawRun(k - 1, lp, dataLen, limit), dataLen, limit)

\* the loop run to its end
RECURSIVE DrawLoop(_, _, _, _)
DrawLoop(k, lp, dataLen, limit) ==
    IF Len(lp.pos) >= limit THEN lp
    ELSE DrawLoop(k + 1, DrawRun(k, lp, dataLen, limit), dataLen, limit)

\* the loop from the rng state st on: the state it leaves and the positions
DrawPositions(st, dataLen, limit) ==
    DrawLoop(0, [rng |-> st, pos |-> <<>>, used |-> {}], dataLen, limit)

\* for i := 0; i < bytesNeeded && i < dataLen; i++ { append(i) }
SequentialPositions(dataLen, bytesNeeded) ==
    [i \in 1..Min(bytesNeeded, dataLen) |-> i - 1]

\* positions = allPositions[:bytesNeeded], bytesNeeded cut to len(allPositions)
TakePositions(all, bytesNeeded) ==
    [rng |-> all.rng, pos |-> SubSeq(all.pos, 1, Min(bytesNeeded, Len(all.pos)))]

\* a random branch that draws from the rng as the last call left it
AncKeepRng(cfg, st) == st

\* the state of the rng when the random branch starts to draw: lsb.rng.Seed(seed)
AncReseed(cfg, st) == RngSeed(generateSeed(cfg.key))

\* a generatePositions that permutes with the rng as the last call left it
AncGeneratePositionsUnseeded(cfg, st, dataLen, bytesNeeded) ==
    IF cfg.useRandomStart
    THEN TakePositions(DrawPositions(st, dataLen, dataLen), bytesNeeded)
    ELSE [rng |-> st, pos |-> SequentialPositions(dataLen, bytesNeeded)]

\* MP3AncillaryLSBSteganography.generatePositions: the positions returned and
\* the state the engine's rng is left in
AncGeneratePositions(cfg, st, dataLen, bytesNeeded) ==
    IF cfg.useRandomStart
    THEN TakePositions(DrawPositions(AncReseed(cfg, st), dataLen, dataLen),
                       bytesNeeded)
    ELSE [rng |-> st, pos |-> SequentialPositions(dataLen, bytesNeeded)]

\* MP3LSBSteganography.generatePositions: draws from the engine's rng as it is
LsbGeneratePositions(cfg, st, dataLen, bytesNeeded) ==
    IF cfg.useRandomStart
    THEN TakePositions(DrawPositions(st, dataLen, Min(bytesNeeded, dataLen)), bytesNeeded)
    ELSE [rng |-> st, pos |-> SequentialPositions(dataLen, bytesNeeded)]

\* ------------------------------------------------------------------------
\* mp3parser: the container parser and writer
\* ------------------------------------------------------------------------

\* the absent *ID3v2Header
NoID3 == [present |-> FALSE, version |-> <<0, 0>>, flags |-> 0, size |-> 0]

syncSafeToInt(b) ==
    (b[1] % 128) * 2097152 + (b[2] % 128) * 16384 + (b[3] % 128) * 128 + (b[4] % 128)

\* ReadID3v2 once the ten header bytes are read and start with "ID3"
ReadID3v2Tag(data, size) ==
    IF Len(data) - 10 < size
    THEN [err |-> TRUE, id3 |-> NoID3, id3Data |-> <<>>, pos |-> Len(data)]
    ELSE [err |-> FALSE,
          id3 |-> [present |-> TRUE, version |-> <<data[4], data[5]>>,
                   flags |-> data[6], size |-> size],
          id3Data |-> Slice(data, 10, 10 + size),
          pos |-> 10 + size]

\* ReadID3v2 on a reader at offset 0: err, the header, the tag bytes and the
\* offset the reader is left at
ReadID3v2(data) ==
    IF Len(data) < 10
    THEN [err |-> TRUE, id3 |-> NoID3, id3Data |-> <<>>, pos |-> Len(data)]
    ELSE IF SubSeq(data, 1, 3) # <<73, 68, 51>>
    THEN [err |-> FALSE, id3 |-> NoID3, id3Data |-> <<>>, pos |-> 0]
    ELSE ReadID3v2Tag(data, syncSafeToInt(SubSeq(data, 7, 10)))

bitrateTable ==
    << 0, 32, 40, 48, 56, 64, 80, 96, 112, 128, 160, 192, 224, 256, 320, 0 >>

sampleRateTable == << 44100, 48000, 32000, 0 >>

btoi(b) == IF b THEN 1 ELSE 0

NoHeader ==
    [VersionID |-> 0, Layer |-> 0, ProtectionBit |-> FALSE, Bitrate |-> 0,
     SampleRate |-> 0, Padding |-> FALSE, ChannelMode |-> 0, FrameLength |-> 0]

\* frameLen := (144*bitrate)/sampleRate + btoi(padding), for a supported header
FrameLength(bitrate, sampleRate, padding) ==
    IF sampleRate = 0 THEN 0 ELSE (144 * bitrate) \div sampleRate + btoi(padding)

\* The fields decoded from the four header bytes hb.  The source works on the
\* big-endian 32-bit word; the shifts and masks are taken on the bytes here.
DecodeHeader(hb) ==
    [VersionID     |-> (hb[2] \div 8) % 4,
     Layer         |-> (hb[2] \div 2) % 4,
     ProtectionBit |-> (hb[2] % 2) = 0,
     Bitrate       |-> bitrateTable[(hb[3] \div 16) + 1] * 1000,
     SampleRate    |-> sampleRateTable[((hb[3] \div 4) % 4) + 1],
     Padding       |-> ((hb[3] \div 2) % 2) = 1,
     ChannelMode   |-> hb[4] \div 64,
     FrameLength   |-> FrameLength(bitrateTable[(hb[3] \div 16) + 1] * 1000,
                                   sampleRateTable[((hb[3] \div 4) % 4) + 1],
                                   ((hb[3] \div 2) % 2) = 1)]

\* (header & 0xFFE00000) == 0xFFE00000
HasSync(hb) == hb[1] = 255 /\ hb[2] >= 224

\* what ReadFrameHeader returns when it returns an error: kind is "eof" (the
\* error is io.EOF) or "err" (any other error); pos is the reader's new offset
NoFrame(kind, pos) ==
    [kind |-> kind, pos |-> pos, h |-> NoHeader, hb |-> <<>>, fdata |-> <<>>]

\* ReadFrameHeader from the io.ReadFull of the frame data on: the header h is
\* decoded and supported, the reader is at offset pos + 4
ReadFrameData(data, pos, hb, h) ==
    IF Len(data) - (pos + 4) >= h.FrameLength - 4
    THEN [kind |-> "frame", pos |-> pos + h.FrameLength, h |-> h, hb |-> hb,
          fdata |-> Slice(data, pos + 4, pos + h.FrameLength)]
    ELSE IF Len(data) - (pos + 4) = 0 THEN NoFrame("eof", pos + 4)
    ELSE NoFrame("err", Len(data))

\* ReadFrameHeader from the sync check on, hb being the four bytes read
ReadFrameDecoded(data, pos, hb, h) ==
    IF ~HasSync(hb) THEN NoFrame("err", pos + 4)
    ELSE IF h.Bitrate = 0 \/ h.SampleRate = 0 THEN NoFrame("err", pos + 4)
    ELSE ReadFrameData(data, pos, hb, h)

\* ReadFrameHeader on the reader at offset pos: a "frame", or an error
ReadFrameHeader(data, pos) ==
    IF Len(data) - pos = 0 THEN NoFrame("eof", pos)
    ELSE IF Len(data) - pos < 4 THEN NoFrame("err", Len(data))
    ELSE ReadFrameDecoded(data, pos, Slice(data, pos, pos + 4),
                          DecodeHeader(Slice(data, pos, pos + 4)))

\* a loop body that, on an error other than io.EOF, puts the reader back
\* where the failed read began
ParseStepRewinding(lp, r) ==
    IF r.kind = "eof" THEN [lp EXCEPT !.pos = r.pos, !.done = TRUE]
    ELSE IF r.kind = "err" THEN lp
    ELSE [lp EXCEPT !.pos = r.pos,
                    !.frames = Append(@, [Header |-> r.h, HeaderBytes |-> r.hb,
                                          Data |-> r.fdata])]

\* the body of the frame loop of ParseMP3File, r being what ReadFrameHeader
\* returned: break on io.EOF, continue on another error, else append the frame
ParseStep(lp, r) ==
    IF r.kind = "eof" THEN [lp EXCEPT !.pos = r.pos, !.done = TRUE]
    ELSE IF r.kind = "err" THEN [lp EXCEPT !.pos = r.pos]
    ELSE [lp EXCEPT !.pos = r.pos,
                    !.frames = Append(@, [Header |-> r.h, HeaderBytes |-> r.hb,
                                          Data |-> r.fdata])]

\* one iteration of the frame loop on lp = [pos, frames, done]
ParseIteration(data, lp) ==
    IF lp.done THEN lp ELSE ParseStep(lp, ReadFrameHeader(data, lp.pos))

\* 2^k successive iterations of the frame loop
RECURSIVE ParseRun(_, _, _)
ParseRun(k, data, lp) ==
    IF lp.done THEN lp
    ELSE IF k = 0 THEN ParseIteration(data, lp)
    ELSE ParseRun(k - 1, data, ParseRun(k - 1, data, lp))

\* the frame loop run until it breaks
RECURSIVE ParseLoop(_, _, _)
ParseLoop(k, data, lp) ==
    IF lp.done THEN lp ELSE ParseLoop(k + 1, data, ParseRun(k, data, lp))

\* ParseMP3File after ReadID3v2 returned r
ParseFrames(data, r) ==
    IF r.err
    THEN [err |-> TRUE, ID3v2 |-> NoID3, ID3v2Data |-> <<>>, Frames |-> <<>>]
    ELSE [err |-> FALSE, ID3v2 |-> r.id3, ID3v2Data |-> r.id3Data,
          Frames |-> ParseLoop(0, data, [pos |-> r.pos, frames |-> <<>>,
                                         done |-> FALSE]).frames]

\* ParseMP3File: err, or the parsed structure
ParseMP3File(data) == ParseFrames(data, ReadID3v2(data))

\* the bytes of frame i as WriteMP3File emits them
FrameBytes(frames, i) == frames[i].HeaderBytes \o frames[i].Data

RECURSIVE ConcatFrames(_, _, _)
ConcatFrames(frames, lo, hi) ==
    IF lo > hi THEN <<>>
    ELSE IF lo = hi THEN FrameBytes(frames, lo)
    ELSE ConcatFrames(frames, lo, (lo + hi) \div 2)
            \o ConcatFrames(frames, (lo + hi) \div 2 + 1, hi)

\* the syncsafe size bytes WriteMP3File writes
SyncSafeBytes(size) ==
    <<(size \div 2097152) % 128, (size \div 16384) % 128, (size \div 128) % 128,
      size % 128>>

WriteMP3File(f) ==
    (IF f.ID3v2.present
     THEN <<73, 68, 51, f.ID3v2.version[1], f.ID3v2.version[2], f.ID3v2.flags>>
            \o SyncSafeBytes(f.ID3v2.size) \o f.ID3v2Data
     ELSE <<>>)
        \o ConcatFrames(f.Frames, 1, Len(f.Frames))

\* ------------------------------------------------------------------------
\* mp3parser: the frame region analyzer
\* ------------------------------------------------------------------------

\* bit p (0-based, most significant first) of the bytes data
BitAt(data, p) == (data[(p \div 8) + 1] \div (2 ^ (7 - (p % 8)))) % 2

RECURSIVE BitsValue(_, _, _)
BitsValue(data, p, n) ==
    IF n = 0 THEN 0
    ELSE 2 * BitsValue(data, p, n - 1) + BitAt(data, p + n - 1)

\* BitReader.ReadBits(n) with the reader at bit position pos: the value
\* (0 when the data end first) and the position the reader is left at
ReadBits(data, pos, n) ==
    IF n <= 0 \/ n > 32 THEN [val |-> 0, pos |-> pos]
    ELSE IF pos + n <= 8 * Len(data)
    THEN [val |-> BitsValue(data, pos, n), pos |-> pos + n]
    ELSE [val |-> 0, pos |-> IF pos > 8 * Len(data) THEN pos ELSE 8 * Len(data)]

\* one granule/channel of ParseSideInfo with the reader at bit position pos:
\* Part23Length (12 bits), and the position after BigValues (9 bits) and
\* GlobalGain (8 bits)
ReadGranuleChannel(sideInfo, pos) ==
    [p23 |-> ReadBits(sideInfo, pos, 12).val,
     pos |-> ReadBits(sideInfo,
                      ReadBits(sideInfo, ReadBits(sideInfo, pos, 12).pos, 9).pos,
                      8).pos]

\* the Part23Length fields of count granule/channels, the first read by gc
RECURSIVE ReadGranules(_, _, _)
ReadGranules(sideInfo, gc, count) ==
    IF count = 0 THEN <<>>
    ELSE <<gc.p23>> \o ReadGranules(sideInfo, ReadGranuleChannel(sideInfo, gc.pos),
                                    count - 1)

\* ParseSideInfo: the sequence of Part23Length over granules and channels
ParseSideInfo(h, sideInfo) ==
    ReadGranules(sideInfo,
        ReadGranuleChannel(sideInfo,
            ReadBits(sideInfo,
                     ReadBits(sideInfo, 0, IF h.VersionID = 3 THEN 9 ELSE 8).pos,
                     IF h.VersionID = 3
                     THEN (IF h.ChannelMode = 3 THEN 5 ELSE 3)
                     ELSE (IF h.ChannelMode = 3 THEN 1 ELSE 2)).pos),
        (IF h.VersionID = 3 THEN 2 ELSE 1) * (IF h.ChannelMode = 3 THEN 1 ELSE 2))

RECURSIVE SumSeq(_)
SumSeq(s) == IF s = <<>> THEN 0 ELSE Head(s) + SumSeq(Tail(s))

SideInfoSize(h) ==
    IF h.VersionID = 3
    THEN (IF h.ChannelMode = 3 THEN 17 ELSE 32)
    ELSE (IF h.ChannelMode = 3 THEN 9 ELSE 17)

\* the empty &MP3FrameRegions{}
EmptyRegions ==
    [err |-> FALSE, SideInfo |-> <<>>, MainData |-> <<>>,
     AncillaryData |-> <<>>, Padding |-> <<>>]

\* a bound that reserves 10 bytes
MaxMainBytesTen(remaining) == IF remaining - 10 < 0 THEN remaining ELSE remaining - 10

\* maxMainBytes for remaining bytes after the side-info
MaxMainBytes(remaining) == IF remaining - 20 < 0 THEN remaining ELSE remaining - 20

\* mainBytes: ceil(mainBits / 8), clipped to maxMainBytes
ClipMainBytes(mainBits, maxMainBytes) ==
    IF (mainBits + 7) \div 8 > maxMainBytes THEN maxMainBytes ELSE (mainBits + 7) \div 8

\* the number of main-data bytes AnalyzeFrameData assigns
MainBytes(h, frameData) ==
    ClipMainBytes(SumSeq(ParseSideInfo(h, SubSeq(frameData, 1, SideInfoSize(h)))),
                  MaxMainBytes(Len(frameData) - SideInfoSize(h)))

\* a split at the first 0x00 of rest, whatever follows it
PaddingStartAtFirstZero(rest) ==
    IF \E j \in 1..Len(rest) : rest[j] = 0
    THEN (CHOOSE i \in 1..Len(rest) :
             rest[i] = 0 /\ \A j \in 1..(i - 1) : rest[j] # 0) - 1
    ELSE Len(rest)

\* the index at which the trailing run of 0x00 of rest starts (0-based)
PaddingStart(rest) ==
    CHOOSE i \in 0..Len(rest) :
        /\ \A j \in (i + 1)..Len(rest) : rest[j] = 0
        /\ (i = 0 \/ rest[i] # 0)

\* AnalyzeFrameData from "Assign regions" on
SplitRegions(sideInfo, mainData, rest, paddingStart) ==
    [err           |-> FALSE,
     SideInfo      |-> sideInfo,
     MainData      |-> mainData,
     AncillaryData |-> SubSeq(rest, 1, paddingStart),
     Padding       |-> Slice(rest, paddingStart, Len(rest))]

\* AnalyzeFrameData once sideInfoSize and mainBytes are known
AssignRegions(frameData, sideInfoSize, mainBytes) ==
    SplitRegions(SubSeq(frameData, 1, sideInfoSize),
                 Slice(frameData, sideInfoSize, sideInfoSize + mainBytes),
                 Slice(frameData, sideInfoSize + mainBytes, Len(frameData)),
                 PaddingStart(Slice(frameData, sideInfoSize + mainBytes, Len(frameData))))

AnalyzeFrameData(h, frameData) ==
    IF Len(frameData) < 4 THEN [EmptyRegions EXCEPT !.err = TRUE]
    ELSE IF SideInfoSize(h) >= Len(frameData)
    THEN [EmptyRegions EXCEPT !.SideInfo = frameData]
    ELSE AssignRegions(frameData, SideInfoSize(h), MainBytes(h, frameData))

\* a safe view without the padding
GetAncillaryBytesOnly(regions) == regions.AncillaryData

GetSafeModificationBytes(regions) == regions.AncillaryData \o regions.Padding

\* a reconstruction that loses the main-data bytes' values
ReconstructFrameDataZeroMain(regions, modifiedSafe) ==
    regions.SideInfo \o Rep(0, Len(regions.MainData)) \o modifiedSafe

\* a safe part that is taken as it is given, whatever its length
FitSafeAsGiven(modifiedSafe, keep) == modifiedSafe

\* the safe part of the reconstructed frame: keep bytes, zero-filled or cut
FitSafe(modifiedSafe, keep) ==
    IF Len(modifiedSafe) <= keep
    THEN modifiedSafe \o Rep(0, keep - Len(modifiedSafe))
    ELSE SubSeq(modifiedSafe, 1, keep)

ReconstructFrameData(regions, modifiedSafe) ==
    regions.SideInfo \o regions.MainData \o
        FitSafe(modifiedSafe, Len(regions.AncillaryData) + Len(regions.Padding))

\* ------------------------------------------------------------------------
\* stego: what both engines share
\* ------------------------------------------------------------------------

\* the payload: filename length, filename, data length, data
Envelope(filename, data) ==
    PutUint32(Len(filename)) \o filename \o PutUint32(Len(data)) \o data

\* bytesNeeded: ceil(8 * payloadLen / lsbBits)
BytesNeeded(payloadLen, lsbBits) ==
    (payloadLen * 8) \div lsbBits + (IF (payloadLen * 8) % lsbBits # 0 THEN 1 ELSE 0)

\* a packing that puts the first bit of a group in the highest of the lsbBits
\* bits
PackBitsHighFirst(bits, i, lsbBits, j) ==
    LET bit(k) == IF i * lsbBits + k >= Len(bits) THEN 0 ELSE bits[i * lsbBits + k + 1]
        v[k \in 0..lsbBits] ==
            IF k = lsbBits THEN 0 ELSE bit(k) * (2 ^ (lsbBits - 1 - k)) + v[k + 1]
    IN  v[0]

\* the value packed for the i-th position (0-based): bit j is payload bit
\* i * lsbBits + j, as far as the payload bits reach
RECURSIVE PackBits(_, _, _, _)
PackBits(bits, i, lsbBits, j) ==
    IF j >= lsbBits \/ i * lsbBits + j >= Len(bits) THEN 0
    ELSE bits[i * lsbBits + j + 1] * (2 ^ j) + PackBits(bits, i, lsbBits, j + 1)

\* a write that replaces the whole byte by the packed bits
SetWholeByte(old, v, lsbBits) == v % (2 ^ lsbBits)

\* carrier[pos] = (carrier[pos] & ^mask) | (bitsToEmbed & mask)
SetLowBits(old, v, lsbBits) == (old - (old % (2 ^ lsbBits))) + (v % (2 ^ lsbBits))

\* the iterations lo..hi (1-based) of the embedding loop over positions; an
\* iteration at which the payload bits are used up changes nothing (break)
RECURSIVE EmbedRun(_, _, _, _, _, _)
EmbedRun(carrier, positions, bits, lsbBits, lo, hi) ==
    IF lo > hi \/ Len(carrier) = 0 THEN carrier
    ELSE IF lo = hi
    THEN IF (lo - 1) * lsbBits >= Len(bits) THEN carrier
         ELSE [carrier EXCEPT ![positions[lo] + 1] =
                  SetLowBits(@, PackBits(bits, lo - 1, lsbBits, 0), lsbBits)]
    ELSE EmbedRun(EmbedRun(carrier, positions, bits, lsbBits, lo, (lo + hi) \div 2),
                  positions, bits, lsbBits, (lo + hi) \div 2 + 1, hi)

\* the embedding loop
EmbedBits(carrier, positions, bits, lsbBits) ==
    EmbedRun(carrier, positions, bits, lsbBits, 1, Len(positions))

\* the extraction loop over the first count positions: lsbBits bits of each,
\* least significant first, not more than maxBits bits in all
ExtractBits(carrier, positions, count, lsbBits, maxBits) ==
    [k \in 1..Min(count * lsbBits, maxBits) |->
        ((carrier[positions[((k - 1) \div lsbBits) + 1] + 1] % (2 ^ lsbBits))
            \div (2 ^ ((k - 1) % lsbBits))) % 2]

\* ------------------------------------------------------------------------
\* stego: MP3AncillaryLSBSteganography
\* ------------------------------------------------------------------------

\* the regions kept for a frame: those AnalyzeFrameData returned, or empty
\* ones when it returned an error
RegionsOrEmpty(r) == IF r.err THEN EmptyRegions ELSE r

\* frameRegions: the regions of every frame
FrameRegions(frames) ==
    [i \in 1..Len(frames) |->
        RegionsOrEmpty(AnalyzeFrameData(frames[i].Header, frames[i].Data))]

RECURSIVE ConcatSafe(_, _, _)
ConcatSafe(regions, lo, hi) ==
    IF lo > hi THEN <<>>
    ELSE IF lo = hi THEN GetSafeModificationBytes(regions[lo])
    ELSE ConcatSafe(regions, lo, (lo + hi) \div 2)
            \o ConcatSafe(regions, (lo + hi) \div 2 + 1, hi)

\* allSafeBytes: the safe views of all frames, in order
AllSafeBytes(regions) == ConcatSafe(regions, 1, Len(regions))

\* safeByteIndex when the put-back loop reaches frame i
RECURSIVE SafeOffset(_, _)
SafeOffset(regions, i) ==
    IF i <= 1 THEN 0
    ELSE SafeOffset(regions, i - 1) + Len(GetSafeModificationBytes(regions[i - 1]))

\* one iteration of the put-back loop: the frame afterwards, n being
\* len(originalSafeBytes) and offset safeByteIndex
PutBackFrame(frame, regions, allSafe, offset, n) ==
    IF n > 0
    THEN [frame EXCEPT !.Data =
            ReconstructFrameData(regions, Slice(allSafe, offset, offset + n))]
    ELSE frame

\* the frames after the modified safe bytes are put back
PutBack(frames, frameRegions, allSafe) ==
    [i \in 1..Len(frames) |->
        PutBackFrame(frames[i], frameRegions[i], allSafe, SafeOffset(frameRegions, i),
                     Len(GetSafeModificationBytes(frameRegions[i])))]

\* a capacity that takes lsb_bits for the number of carrier bytes per bit
AncCapacityOfPerBit(cfg, totalSafeBytes) ==
    IF totalSafeBytes = 0
    THEN [err |-> "no safe ancillary data found in MP3 frames", capacity |-> 0]
    ELSE IF (totalSafeBytes \div cfg.lsbBits) \div 8 < 8
    THEN [err |-> "insufficient ancillary data for metadata", capacity |-> 0]
    ELSE [err |-> "ok", capacity |-> (totalSafeBytes \div cfg.lsbBits) \div 8 - 8]

\* a capacity that counts a whole carrier byte for every payload byte
AncCapacityOfBytes(cfg, totalSafeBytes) ==
    IF totalSafeBytes = 0
    THEN [err |-> "no safe ancillary data found in MP3 frames", capacity |-> 0]
    ELSE IF totalSafeBytes < 8
    THEN [err |-> "insufficient ancillary data for metadata", capacity |-> 0]
    ELSE [err |-> "ok", capacity |-> totalSafeBytes - 8]

\* a capacity that reserves nothing for the two length fields
AncCapacityOfNoReserve(cfg, totalSafeBytes) ==
    IF totalSafeBytes = 0
    THEN [err |-> "no safe ancillary data found in MP3 frames", capacity |-> 0]
    ELSE [err |-> "ok", capacity |-> (totalSafeBytes * cfg.lsbBits) \div 8]

\* CalculateCapacity once totalSafeBytes is counted
AncCapacityOf(cfg, totalSafeBytes) ==
    IF totalSafeBytes = 0
    THEN [err |-> "no safe ancillary data found in MP3 frames", capacity |-> 0]
    ELSE IF (totalSafeBytes * cfg.lsbBits) \div 8 < 8
    THEN [err |-> "insufficient ancillary data for metadata", capacity |-> 0]
    ELSE [err |-> "ok", capacity |-> (totalSafeBytes * cfg.lsbBits) \div 8 - 8]

\* CalculateCapacity once the file is parsed
AncCapacityParsed(cfg, f) ==
    IF f.err THEN [err |-> "failed to parse MP3", capacity |-> 0]
    ELSE AncCapacityOf(cfg, Len(AllSafeBytes(FrameRegions(f.Frames))))

\* CalculateCapacity: err is "ok" or the error returned
AncCalculateCapacity(cfg, mp3Data) == AncCapacityParsed(cfg, ParseMP3File(mp3Data))

\* What a failed EmbedInMP3 returns: the error and no bytes.  rng is the
\* engine's generator and frames the parsed frames as the call leaves them;
\* pos are the positions written and safe is allSafeBytes after the writes.
EmbedFailure(msg, st, frames) ==
    [err |-> msg, out |-> <<>>, rng |-> st, frames |-> frames,
     pos |-> <<>>, safe |-> <<>>]

\* a check that lets every payload pass
PayloadAlwaysFits(payloadLen, capacity) == FALSE

\* len(payload) > capacity
PayloadTooLarge(payloadLen, capacity) == payloadLen > capacity

\* the payload EmbedInMP3 embeds: the envelope, encrypted as a whole if enabled
AncPayload(cfg, envelope) ==
    IF cfg.useEncryption THEN Encrypt(cfg.key, envelope) ELSE envelope

\* EmbedInMP3 from the put-back loop on, safe being allSafeBytes as modified
AncEmbedWrite(f, g, safe, frames) ==
    [err |-> "ok", out |-> WriteMP3File([f EXCEPT !.Frames = frames]),
     rng |-> g.rng, frames |-> frames, pos |-> g.pos, safe |-> safe]

\* EmbedInMP3 once the embedding loop has run
AncEmbedModified(f, frameRegions, g, safe) ==
    AncEmbedWrite(f, g, safe, PutBack(f.Frames, frameRegions, safe))

\* EmbedInMP3 once generatePositions has returned g
AncEmbedAt(cfg, payload, f, frameRegions, allSafeBytes, g) ==
    AncEmbedModified(f, frameRegions, g,
        EmbedBits(allSafeBytes, g.pos, bytesToBits(payload), cfg.lsbBits))

\* EmbedInMP3 once allSafeBytes is collected and bytesNeeded computed
AncEmbedSafe(cfg, st, payload, f, frameRegions, allSafeBytes, bytesNeeded) ==
    IF Len(allSafeBytes) = 0
    THEN EmbedFailure("no safe ancillary data available for embedding", st, f.Frames)
    ELSE IF bytesNeeded > Len(allSafeBytes)
    THEN EmbedFailure("insufficient safe bytes", st, f.Frames)
    ELSE AncEmbedAt(cfg, payload, f, frameRegions, allSafeBytes,
                    AncGeneratePositions(cfg, st, Len(allSafeBytes), bytesNeeded))

\* EmbedInMP3 once the frames are analysed
AncEmbedCollected(cfg, st, payload, f, frameRegions) ==
    AncEmbedSafe(cfg, st, payload, f, frameRegions, AllSafeBytes(frameRegions),
                 BytesNeeded(Len(payload), cfg.lsbBits))

\* EmbedInMP3 once CalculateCapacity has returned c
AncEmbedChecked(cfg, st, payload, f, c) ==
    IF c.err # "ok" THEN EmbedFailure(c.err, st, f.Frames)
    ELSE IF PayloadTooLarge(Len(payload), c.capacity)
    THEN EmbedFailure("secret data too large", st, f.Frames)
    ELSE AncEmbedCollected(cfg, st, payload, f, FrameRegions(f.Frames))

\* EmbedInMP3 once the payload is prepared and the file parsed
AncEmbedParsed(cfg, st, mp3Data, payload, f) ==
    IF f.err THEN EmbedFailure("failed to parse MP3", st, <<>>)
    ELSE AncEmbedChecked(cfg, st, payload, f, AncCalculateCapacity(cfg, mp3Data))

\* EmbedInMP3 on the engine with config cfg and rng state st
AncEmbedInMP3(cfg, st, mp3Data, secretData) ==
    AncEmbedParsed(cfg, st, mp3Data,
                   AncPayload(cfg, Envelope(cfg.filename, secretData)),
                   ParseMP3File(mp3Data))

\* what a failed ExtractFromMP3 returns: nil, "", err
ExtractFailure(msg, st) == [err |-> msg, data |-> <<>>, filename |-> <<>>, rng |-> st]

\* a data check that returns what there is when the buffer is too short
AncParseDataClipped(st, extractedBytes, filenameLen, dataLen) ==
    IF dataLen > 10 * 1024 * 1024 THEN ExtractFailure("invalid data length", st)
    ELSE [err |-> "ok",
          data |-> Slice(extractedBytes, 4 + filenameLen + 4,
                         Min(4 + filenameLen + 4 + dataLen, Len(extractedBytes))),
          filename |-> Slice(extractedBytes, 4, 4 + filenameLen),
          rng |-> st]

\* ExtractFromMP3 once both lengths are read
AncParseData(st, extractedBytes, filenameLen, dataLen) ==
    IF dataLen > 10 * 1024 * 1024 THEN ExtractFailure("invalid data length", st)
    ELSE IF 4 + filenameLen + 4 + dataLen > Len(extractedBytes)
    THEN ExtractFailure("insufficient extracted data", st)
    ELSE [err |-> "ok",
          data |-> Slice(extractedBytes, 4 + filenameLen + 4,
                         4 + filenameLen + 4 + dataLen),
          filename |-> Slice(extractedBytes, 4, 4 + filenameLen),
          rng |-> st]

\* a filename check that returns an empty result instead of an error
AncParseFilenameLenient(st, extractedBytes, filenameLen) ==
    IF filenameLen > 255 \/ Len(extractedBytes) < 8 + filenameLen
    THEN [err |-> "ok", data |-> <<>>, filename |-> <<>>, rng |-> st]
    ELSE AncParseData(st, extractedBytes, filenameLen,
             Uint32(Slice(extractedBytes, 4 + filenameLen, 4 + filenameLen + 4)))

\* ExtractFromMP3 once filenameLen is read
AncParseFilename(st, extractedBytes, filenameLen) ==
    IF filenameLen > 255 THEN ExtractFailure("invalid filename length", st)
    ELSE IF Len(extractedBytes) < 8 + filenameLen
    THEN ExtractFailure("insufficient extracted data for filename", st)
    ELSE AncParseData(st, extractedBytes, filenameLen,
             Uint32(Slice(extractedBytes, 4 + filenameLen, 4 + filenameLen + 4)))

\* an extract that never decrypts
AncLeftEncrypted(cfg, raw) == raw

\* the bytes ExtractFromMP3 parses: the extracted ones, decrypted if enabled
AncDecrypted(cfg, raw) == IF cfg.useEncryption THEN Decrypt(cfg.key, raw) ELSE raw

\* ExtractFromMP3 from the decryption on
AncParseEnvelope(st, extractedBytes) ==
    AncParseFilename(st, extractedBytes, Uint32(SubSeq(extractedBytes, 1, 4)))

\* ExtractFromMP3 once the extracted bits are grouped into bytes
AncExtractBytes(cfg, st, raw) ==
    IF Len(raw) < 8
    THEN ExtractFailure("insufficient extracted data for basic metadata", st)
    ELSE AncParseEnvelope(st, AncDecrypted(cfg, raw))

\* ExtractFromMP3 once generatePositions has returned g
AncExtractAt(cfg, allSafeBytes, g) ==
    IF Len(g.pos) = 0 THEN ExtractFailure("no positions generated for extraction", g.rng)
    ELSE AncExtractBytes(cfg, g.rng,
             bitsToBytes(ExtractBits(allSafeBytes, g.pos, Len(g.pos), cfg.lsbBits,
                                     Len(g.pos) * cfg.lsbBits)))

\* ExtractFromMP3 once allSafeBytes is collected
AncExtractSafe(cfg, st, allSafeBytes) ==
    IF Len(allSafeBytes) = 0 THEN ExtractFailure("no safe ancillary data found", st)
    ELSE AncExtractAt(cfg, allSafeBytes,
             AncGeneratePositions(cfg, st, Len(allSafeBytes), Len(allSafeBytes)))

\* ExtractFromMP3 once the file is parsed
AncExtractParsed(cfg, st, f) ==
    IF f.err THEN ExtractFailure("failed to parse MP3", st)
    ELSE AncExtractSafe(cfg, st, AllSafeBytes(FrameRegions(f.Frames)))

\* ExtractFromMP3 on the engine with config cfg and rng state st
AncExtractFromMP3(cfg, st, mp3Data) == AncExtractParsed(cfg, st, ParseMP3File(mp3Data))

\* reads of extractedBytes that take the filename and the data length
\* whatever the length of the buffer, and never the data
AncBufferReadsUnchecked(buf) ==
    IF Len(buf) < 8 THEN {}
    ELSE {[len |-> Len(buf), lo |-> 0, hi |-> 4]}
         \cup (IF Uint32(SubSeq(buf, 1, 4)) > 255 THEN {}
               ELSE {[len |-> Len(buf), lo |-> 4, hi |-> 4 + Uint32(SubSeq(buf, 1, 4))],
                     [len |-> Len(buf), lo |-> 4 + Uint32(SubSeq(buf, 1, 4)),
                      hi |-> 8 + Uint32(SubSeq(buf, 1, 4))]})

\* the bounds of the data, dataStart and dataStart + dataLen, once the
\* filename length filenameLen has passed its checks
AncDataRead(buf, filenameLen, dataLen) ==
    IF dataLen > 10 * 1024 * 1024 \/ 4 + filenameLen + 4 + dataLen > Len(buf) THEN {}
    ELSE {[len |-> Len(buf), lo |-> 4 + filenameLen + 4,
           hi |-> 4 + filenameLen + 4 + dataLen]}

\* The slice expressions ExtractFromMP3 evaluates on extractedBytes, after the
\* decryption, each with the length of the buffer and its two bounds
\* (extractedBytes[lo:hi]): the filename length; then, unless the call has
\* returned, the filename and the data length; then the data
AncBufferReads(buf) ==
    IF Len(buf) < 8 THEN {}
    ELSE {[len |-> Len(buf), lo |-> 0, hi |-> 4]}
         \cup (IF Uint32(SubSeq(buf, 1, 4)) > 255 \/ Len(buf) < 8 + Uint32(SubSeq(buf, 1, 4))
               THEN {}
               ELSE {[len |-> Len(buf), lo |-> 4, hi |-> 4 + Uint32(SubSeq(buf, 1, 4))],
                     [len |-> Len(buf), lo |-> 4 + Uint32(SubSeq(buf, 1, 4)),
                      hi |-> 8 + Uint32(SubSeq(buf, 1, 4))]}
                    \cup AncDataRead(buf, Uint32(SubSeq(buf, 1, 4)),
                             Uint32(Slice(buf, 4 + Uint32(SubSeq(buf, 1, 4)),
                                          8 + Uint32(SubSeq(buf, 1, 4))))))

\* The reads of ExtractFromMP3 once generatePositions has returned g: an
\* index expression allSafeBytes[positions[i]] for every position, then the
\* slices of extractedBytes
AncReadsAt(cfg, allSafeBytes, g) ==
    {[len |-> Len(allSafeBytes), lo |-> g.pos[i], hi |-> g.pos[i] + 1] :
        i \in 1..Len(g.pos)}
      \cup AncBufferReads(AncDecrypted(cfg,
               bitsToBytes(ExtractBits(allSafeBytes, g.pos, Len(g.pos), cfg.lsbBits,
                                       Len(g.pos) * cfg.lsbBits))))

\* the reads of ExtractFromMP3 once allSafeBytes is collected
AncReadsOfSafe(cfg, st, allSafeBytes) ==
    IF Len(allSafeBytes) = 0 THEN {}
    ELSE AncReadsAt(cfg, allSafeBytes,
             AncGeneratePositions(cfg, st, Len(allSafeBytes), Len(allSafeBytes)))

\* the reads of allSafeBytes and of extractedBytes that ExtractFromMP3 makes
AncExtractReads(cfg, st, mp3Data) ==
    AncReadsOfSafe(cfg, st, AllSafeBytes(FrameRegions(ParseMP3File(mp3Data).Frames)))

\* ------------------------------------------------------------------------
\* stego: MP3LSBSteganography, the engine the handlers use
\* ------------------------------------------------------------------------

\* usableBytes, counted only when positive
UsableBytes(frame) == IF Len(frame.Data) - 10 > 0 THEN Len(frame.Data) - 10 ELSE 0

RECURSIVE ConcatUsable(_, _, _)
ConcatUsable(frames, lo, hi) ==
    IF lo > hi THEN <<>>
    ELSE IF lo = hi THEN SubSeq(frames[lo].Data, 1, UsableBytes(frames[lo]))
    ELSE ConcatUsable(frames, lo, (lo + hi) \div 2)
            \o ConcatUsable(frames, (lo + hi) \div 2 + 1, hi)

\* allFrameData: frame.Data[:usableBytes] of all frames, in order
AllFrameData(frames) == ConcatUsable(frames, 1, Len(frames))

\* dataIndex when the copy-back loop reaches frame i
RECURSIVE UsableOffset(_, _)
UsableOffset(frames, i) ==
    IF i <= 1 THEN 0 ELSE UsableOffset(frames, i - 1) + UsableBytes(frames[i - 1])

\* copy(frame.Data[:usableBytes], allFrameData[dataIndex:dataIndex+usableBytes])
CopyBackFrame(frame, allFrameData, offset, usableBytes) ==
    IF usableBytes > 0
    THEN [frame EXCEPT !.Data = Slice(allFrameData, offset, offset + usableBytes)
                                   \o Slice(frame.Data, usableBytes, Len(frame.Data))]
    ELSE frame

\* the frames after the copy-back loop
CopyBack(frames, allFrameData) ==
    [i \in 1..Len(frames) |->
        CopyBackFrame(frames[i], allFrameData, UsableOffset(frames, i),
                      UsableBytes(frames[i]))]

\* CalculateCapacity once the file is parsed
LsbCapacityParsed(cfg, f) ==
    IF f.err THEN [err |-> "failed to parse MP3", capacity |-> 0]
    ELSE [err |-> "ok",
          capacity |-> (Len(AllFrameData(f.Frames)) * cfg.lsbBits) \div 8 - 8]

LsbCalculateCapacity(cfg, mp3Data) == LsbCapacityParsed(cfg, ParseMP3File(mp3Data))

\* the secret EmbedInMP3 puts into the envelope: encrypted if enabled
LsbSecret(cfg, secretData) ==
    IF cfg.useEncryption THEN Encrypt(cfg.key, secretData) ELSE secretData

\* EmbedInMP3 from the copy-back loop on
LsbEmbedWrite(f, g, allFrameData, frames) ==
    [err |-> "ok", out |-> WriteMP3File([f EXCEPT !.Frames = frames]),
     rng |-> g.rng, frames |-> frames, pos |-> g.pos, safe |-> allFrameData]

\* EmbedInMP3 once the embedding loop has run
LsbEmbedModified(f, g, allFrameData) ==
    LsbEmbedWrite(f, g, allFrameData, CopyBack(f.Frames, allFrameData))

\* EmbedInMP3 once generatePositions has returned g
LsbEmbedAt(cfg, payload, f, allFrameData, g) ==
    LsbEmbedModified(f, g,
        EmbedBits(allFrameData, g.pos, bytesToBits(payload), cfg.lsbBits))

\* EmbedInMP3 once allFrameData is collected
LsbEmbedCollected(cfg, st, payload, f, allFrameData) ==
    LsbEmbedAt(cfg, payload, f, allFrameData,
               LsbGeneratePositions(cfg, st, Len(allFrameData),
                                    BytesNeeded(Len(payload), cfg.lsbBits)))

\* EmbedInMP3 once CalculateCapacity has returned c
LsbEmbedChecked(cfg, st, payload, f, c) ==
    IF c.err # "ok" THEN EmbedFailure(c.err, st, f.Frames)
    ELSE IF PayloadTooLarge(Len(payload), c.capacity)
    THEN EmbedFailure("secret data too large", st, f.Frames)
    ELSE LsbEmbedCollected(cfg, st, payload, f, AllFrameData(f.Frames))

\* EmbedInMP3 once the secret is encrypted and the file parsed
LsbEmbedParsed(cfg, st, mp3Data, secretData, f) ==
    IF f.err THEN EmbedFailure("failed to parse MP3", st, <<>>)
    ELSE LsbEmbedChecked(cfg, st, Envelope(cfg.filename, secretData), f,
                         LsbCalculateCapacity(cfg, mp3Data))

\* EmbedInMP3 on the engine with config cfg and rng state st
LsbEmbedInMP3(cfg, st, mp3Data, secretData) ==
    LsbEmbedParsed(cfg, st, mp3Data, LsbSecret(cfg, secretData), ParseMP3File(mp3Data))

\* secretData as ExtractFromMP3 returns it: decrypted if enabled
LsbDecrypted(cfg, secretData) ==
    IF cfg.useEncryption THEN Decrypt(cfg.key, secretData) ELSE secretData

\* ExtractFromMP3 once the complete payload is extracted
LsbExtractSecret(cfg, st, filename, filenameLen, dataLen, extractedBytes) ==
    IF 4 + filenameLen + 4 + dataLen > Len(extractedBytes)
    THEN ExtractFailure("insufficient extracted data", st)
    ELSE [err |-> "ok",
          data |-> LsbDecrypted(cfg, Slice(extractedBytes, 4 + filenameLen + 4,
                                           4 + filenameLen + 4 + dataLen)),
          filename |-> filename,
          rng |-> st]

\* ExtractFromMP3 once the third generatePositions call has returned g
LsbExtractThird(cfg, allFrameData, filename, filenameLen, dataLen, bytesNeeded, g) ==
    IF Len(g.pos) < bytesNeeded
    THEN ExtractFailure("insufficient positions for complete payload extraction", g.rng)
    ELSE LsbExtractSecret(cfg, g.rng, filename, filenameLen, dataLen,
             bitsToBytes(ExtractBits(allFrameData, g.pos, bytesNeeded, cfg.lsbBits,
                                     (8 + filenameLen + dataLen) * 8)))

\* ExtractFromMP3 once the filename and dataLen are read
LsbExtractPayload(cfg, st, allFrameData, filename, filenameLen, dataLen) ==
    IF dataLen > 10 * 1024 * 1024 THEN ExtractFailure("invalid data length", st)
    ELSE LsbExtractThird(cfg, allFrameData, filename, filenameLen, dataLen,
             BytesNeeded(8 + filenameLen + dataLen, cfg.lsbBits),
             LsbGeneratePositions(cfg, st, Len(allFrameData),
                 BytesNeeded(8 + filenameLen + dataLen, cfg.lsbBits)))

\* ExtractFromMP3 once the metadata bytes are extracted
LsbExtractLengths(cfg, st, allFrameData, filenameLen, extractedBytes) ==
    IF Len(extractedBytes) < 8 + filenameLen
    THEN ExtractFailure("insufficient extracted data for metadata", st)
    ELSE LsbExtractPayload(cfg, st, allFrameData,
             Slice(extractedBytes, 4, 4 + filenameLen), filenameLen,
             Uint32(Slice(extractedBytes, 4 + filenameLen, 4 + filenameLen + 4)))

\* ExtractFromMP3 once the second generatePositions call has returned g
LsbExtractSecond(cfg, allFrameData, filenameLen, bytesNeeded, g) ==
    IF Len(g.pos) < bytesNeeded
    THEN ExtractFailure("insufficient positions for metadata extraction", g.rng)
    ELSE LsbExtractLengths(cfg, g.rng, allFrameData, filenameLen,
             bitsToBytes(ExtractBits(allFrameData, g.pos, bytesNeeded, cfg.lsbBits,
                                     (8 + filenameLen) * 8)))

\* ExtractFromMP3 once filenameLen is read
LsbExtractMeta(cfg, st, allFrameData, filenameLen) ==
    IF filenameLen > 255 THEN ExtractFailure("invalid filename length", st)
    ELSE LsbExtractSecond(cfg, allFrameData, filenameLen,
             BytesNeeded(8 + filenameLen, cfg.lsbBits),
             LsbGeneratePositions(cfg, st, Len(allFrameData),
                                  BytesNeeded(8 + filenameLen, cfg.lsbBits)))

\* ExtractFromMP3 once the first 32 bits are grouped into bytes
LsbExtractFilenameLen(cfg, st, allFrameData, filenameBytes) ==
    IF Len(filenameBytes) < 4
    THEN ExtractFailure("insufficient data for filename length", st)
    ELSE LsbExtractMeta(cfg, st, allFrameData, Uint32(SubSeq(filenameBytes, 1, 4)))

\* ExtractFromMP3 once the first generatePositions call has returned g
LsbExtractFirst(cfg, allFrameData, bytesNeeded, g) ==
    IF Len(g.pos) < bytesNeeded
    THEN ExtractFailure("insufficient data for metadata extraction", g.rng)
    ELSE LsbExtractFilenameLen(cfg, g.rng, allFrameData,
             bitsToBytes(ExtractBits(allFrameData, g.pos, bytesNeeded, cfg.lsbBits, 32)))

\* ExtractFromMP3 once allFrameData is collected
LsbExtractData(cfg, st, allFrameData) ==
    IF Len(allFrameData) = 0 THEN ExtractFailure("no usable frame data found", st)
    ELSE LsbExtractFirst(cfg, allFrameData, BytesNeeded(4, cfg.lsbBits),
             LsbGeneratePositions(cfg, st, Len(allFrameData),
                                  BytesNeeded(4, cfg.lsbBits)))

\* ExtractFromMP3 once the file is parsed
LsbExtractParsed(cfg, st, f) ==
    IF f.err THEN ExtractFailure("failed to parse MP3", st)
    ELSE LsbExtractData(cfg, st, AllFrameData(f.Frames))

\* ExtractFromMP3 on the engine with config cfg and rng state st
LsbExtractFromMP3(cfg, st, mp3Data) == LsbExtractParsed(cfg, st, ParseMP3File(mp3Data))

\* ------------------------------------------------------------------------
\* audio.AnalyzeMP3 and the handlers
\* ------------------------------------------------------------------------

\* AnalyzeMP3 once the file is parsed: "ok" or the error
AnalyzeParsed(f) ==
    IF f.err THEN "failed to parse MP3"
    ELSE IF Len(f.Frames) = 0 THEN "no MP3 frames found"
    ELSE "ok"

AnalyzeMP3(mp3Data) == AnalyzeParsed(ParseMP3File(mp3Data))

\* isValidMP3File, on the extension of the uploaded file's name
isValidMP3File(ext) == ext = ".mp3"

\* a JSON error response
ErrorResponse(status, message) ==
    [status |-> status, message |-> message, body |-> <<>>, filename |-> <<>>]

\* c.Data(http.StatusOK, ...): the body, and the file name of the attachment
DataResponse(body, filename) ==
    [status |-> 200, message |-> "ok", body |-> body, filename |-> filename]

\* the checks both handlers make on the form values; "ok" or the message
ValidateForm(req) ==
    IF req.key = <<>> THEN "Key is required"
    ELSE IF ValidateKey(req.key) # "ok" THEN "Invalid key"
    ELSE IF req.lsbBits < 1 \/ req.lsbBits > 4 THEN "LSB bits must be between 1 and 4"
    ELSE IF ~isValidMP3File(req.ext) THEN "Invalid audio file format"
    ELSE "ok"

\* the models.StegoConfig InsertMessage builds
InsertConfig(req) ==
    [key |-> req.key, useEncryption |-> req.useEncryption,
     useRandomStart |-> req.useRandomStart, lsbBits |-> req.lsbBits,
     filename |-> req.filename]

\* the models.StegoConfig ExtractMessage builds: no SecretFilename
ExtractConfig(req) == [InsertConfig(req) EXCEPT !.filename = <<>>]

\* InsertMessage once EmbedInMP3 has returned r
InsertEmbedded(r) ==
    IF r.err # "ok" THEN ErrorResponse(500, "Failed to embed secret data")
    ELSE DataResponse(r.out, <<>>)

\* InsertMessage once CalculateCapacity has returned c on the new engine
InsertMeasured(req, config, c) ==
    IF c.err # "ok" THEN ErrorResponse(500, "Failed to calculate capacity")
    ELSE IF Len(req.secret) + Len(req.filename) + 8 > c.capacity
    THEN ErrorResponse(400, "Secret data too large")
    ELSE InsertEmbedded(LsbEmbedInMP3(config, RngSeed(generateSeed(config.key)),
                                      req.audio, req.secret))

\* InsertMessage from AnalyzeMP3 on
InsertAnalyzed(req, analysis) ==
    IF analysis # "ok" THEN ErrorResponse(500, "Failed to analyze MP3 file")
    ELSE InsertMeasured(req, InsertConfig(req),
                        LsbCalculateCapacity(InsertConfig(req), req.audio))

\* an InsertMessage that analyzes the audio file before it looks at the form
\* values
InsertAnalyzedFirst(req, validation) ==
    IF AnalyzeMP3(req.audio) # "ok" THEN ErrorResponse(500, "Failed to analyze MP3 file")
    ELSE IF validation # "ok" THEN ErrorResponse(400, validation)
    ELSE InsertMeasured(req, InsertConfig(req),
                        LsbCalculateCapacity(InsertConfig(req), req.audio))

\* InsertMessage once the form values are checked
InsertValidated(req, validation) ==
    IF validation # "ok" THEN ErrorResponse(400, validation)
    ELSE InsertAnalyzed(req, AnalyzeMP3(req.audio))

\* the InsertMessage handler: the response to the request req
InsertMessage(req) == InsertValidated(req, ValidateForm(req))

\* ExtractMessage once ExtractFromMP3 has returned r
ExtractExtracted(r) ==
    IF r.err # "ok" THEN ErrorResponse(500, "Failed to extract secret data")
    ELSE IF Len(r.data) = 0 THEN ErrorResponse(500, "No secret data extracted")
    ELSE DataResponse(r.data, r.filename)

\* ExtractMessage once the form values are checked
ExtractValidated(req, validation) ==
    IF validation # "ok" THEN ErrorResponse(400, validation)
    ELSE ExtractExtracted(LsbExtractFromMP3(ExtractConfig(req),
                              RngSeed(generateSeed(req.key)), req.audio))

\* the ExtractMessage handler: the response to the request req, whose audio
\* is the stego file
ExtractMessage(req) == ExtractValidated(req, ValidateForm(req))

\* ------------------------------------------------------------------------
\* The inputs the operations are tried on
\* ------------------------------------------------------------------------

\* Three 96-byte frames (32 kbit/s at 48 kHz): header bytes, then 92 data bytes.
\* FrameA: MPEG-1 stereo, part2_3_length all 0, so all 60 bytes after the
\*         side-info are safe bytes; every one is 0xEE.
\* FrameB: MPEG-2 mono, one part2_3_length of 64 bits: 8 main-data bytes, then
\*         5 non-zero ancillary bytes and 70 bytes of 0x00.
\* FrameC: MPEG-1 stereo, a part2_3_length of 4095 bits, clipped to 40 bytes of
\*         main data; the last 20 bytes mix zero and non-zero bytes.
FrameA == <<255, 251, 20, 0>> \o Rep(0, 32) \o Rep(238, 60)

FrameB == <<255, 243, 20, 192>> \o <<0, 2, 0>> \o Rep(0, 6)
            \o Rep(170, 8) \o <<90, 165, 1, 254, 3>> \o Rep(0, 70)

FrameC == <<255, 251, 20, 0>> \o <<0, 15, 255>> \o Rep(0, 29)
            \o Rep(85, 40) \o <<7, 0, 0, 9>> \o Rep(0, 8) \o <<255, 128, 0, 1>> \o Rep(0, 4)

FrameKinds == {FrameA, FrameB, FrameC}

\* the sequences of 1..n frames
RECURSIVE FrameSeqs(_)
FrameSeqs(n) ==
    IF n = 0 THEN {<<>>}
    ELSE LET shorter == FrameSeqs(n - 1) IN
         shorter \cup {Append(fs, k) : fs \in {g \in shorter : Len(g) = n - 1},
                                        k \in FrameKinds}

RECURSIVE ConcatAll(_)
ConcatAll(ss) == IF ss = <<>> THEN <<>> ELSE Head(ss) \o ConcatAll(Tail(ss))

\* carriers that are frames and nothing else
CleanCarriers == {ConcatAll(fs) : fs \in FrameSeqs(MaxFrames) \ {<<>>}}

\* what may precede the first frame: nothing, a well-formed ID3v2 block of 5 tag
\* bytes, an ID3v2 block whose last size byte has its top bit set (0x85), or
\* four bytes that carry no sync word
Prefixes ==
    { <<>>,
      <<73, 68, 51, 3, 0, 0, 0, 0, 0, 5>> \o <<84, 73, 84, 50, 1>>,
      <<73, 68, 51, 3, 0, 64, 0, 0, 0, 133>> \o <<84, 73, 84, 50, 1>>,
      <<1, 2, 3, 4>> }

\* what may follow the last frame: nothing, four bytes without a sync word, a
\* frame cut short after 30 bytes, or the start of an ID3v1 tag ("TAG" and
\* five more bytes)
Suffixes ==
    { <<>>,
      <<9, 8, 7, 6>>,
      SubSeq(FrameB, 1, 30),
      <<84, 65, 71, 115, 111, 110, 103, 0>> }

\* carriers with something around or between two frames, a carrier whose
\* ID3v2 block announces more tag bytes than follow, and one without any frame
DecoratedCarriers ==
    {p \o FrameA \o s : p \in Prefixes, s \in Suffixes}
        \cup {FrameA \o <<0, 1, 2, 3>> \o FrameB,
              <<73, 68, 51, 3, 0, 0, 0, 0, 0, 100>> \o FrameA,
              Rep(7, 12)}

Carriers == CleanCarriers \cup DecoratedCarriers

\* "wwwvGwwwvF" and "wwwvHwwwvE": two keys that differ in two bytes
KeyA == <<119, 119, 119, 118, 71, 119, 119, 119, 118, 70>>
KeyB == <<119, 119, 119, 118, 72, 119, 119, 119, 118, 69>>

Keys == {KeyA, KeyB}

\* the secret file names: "0" and "n.t"
Filenames == {<<48>>, <<110, 46, 116>>}

\* the secrets: "1" and twelve bytes with both extremes
Secrets == {<<49>>, <<200, 0, 255, 1, 2, 3, 4, 5, 6, 7, 8, 128>>}

Configs ==
    [key : Keys, useEncryption : BOOLEAN, useRandomStart : BOOLEAN,
     lsbBits : 1..4, filename : Filenames]

\* the configs generatePositions is called under directly: it reads the key
\* and use_random_start only
PosConfigs ==
    [key : Keys, useEncryption : {FALSE}, useRandomStart : BOOLEAN,
     lsbBits : {1}, filename : {<<48>>}]

\* insert requests with form values the handler accepts
ValidRequests ==
    [key : {KeyA}, useEncryption : BOOLEAN, useRandomStart : BOOLEAN,
     lsbBits : 1..4, ext : {".mp3"}, audio : Carriers,
     secret : Secrets \cup {<<>>}, filename : Filenames]

\* requests among which are those the handlers reject: no key, a key of 257
\* bytes, lsb_bits 0 and 5, a file that is not named *.mp3, a file without a
\* frame
OddRequests ==
    [key : {<<>>, KeyA, Rep(119, 257)}, useEncryption : {TRUE},
     useRandomStart : {FALSE}, lsbBits : {0, 1, 5}, ext : {".mp3", ".wav"},
     audio : {FrameA \o FrameB, Rep(7, 12)}, secret : {<<49>>}, filename : {<<48>>}]

InsertRequests == ValidRequests \cup OddRequests

\* ------------------------------------------------------------------------
\* State
\* ------------------------------------------------------------------------

VARIABLES
    pc,      \* what has been done so far
    cfg,     \* the engine's config (models.StegoConfig)
    rng,     \* the state of the engine's rng
    cap,     \* the last CalculateCapacity call: its carrier and result
    stego,   \* the last EmbedInMP3 call: its carrier, secret and result
    got,     \* the last ExtractFromMP3 call: its key and result
    gen,     \* the generatePositions calls made: dataLen, bytesNeeded, result
    ins,     \* the last insert request and the handler's response
    ext,     \* the last extract request and the handler's response
    codec,   \* the cipher and the bit codec: their inputs and what they returned
    eng,     \* the engines of the calls that run in parallel, one per call
    parse,   \* ParseMP3File under way: its input, reader offset and frames
    fr       \* one frame: its header and data, its regions, its data rebuilt

vars == <<pc, cfg, rng, cap, stego, got, gen, ins, ext, codec, eng, parse, fr>>

NoCap == [mp3 |-> <<>>, res |-> [err |-> "none", capacity |-> 0]]
NoStego == [mp3 |-> <<>>, secret |-> <<>>, res |-> EmbedFailure("none", 0, <<>>)]
NoGot == [key |-> <<>>, res |-> ExtractFailure("none", 0)]
NoExchange ==
    [req |-> [key |-> <<>>, useEncryption |-> FALSE, useRandomStart |-> FALSE,
              lsbBits |-> 0, ext |-> "", audio |-> <<>>, secret |-> <<>>,
              filename |-> <<>>],
     resp |-> ErrorResponse(0, "none")]
NoCodec ==
    [key |-> <<>>, b |-> <<>>, enc |-> <<>>, dec |-> <<>>, bits |-> <<>>,
     bytes |-> <<>>]
NoEngines == <<>>
NoParse ==
    [data |-> <<>>, err |-> FALSE, ID3v2 |-> NoID3, ID3v2Data |-> <<>>,
     lp |-> [pos |-> 0, frames |-> <<>>, done |-> FALSE]]
NoAnalysis ==
    [h |-> NoHeader, data |-> <<>>, regions |-> EmptyRegions, given |-> <<>>,
     out |-> <<>>]

\* ------------------------------------------------------------------------
\* The ancillary engine, one call after another
\* ------------------------------------------------------------------------

\* NewMP3AncillaryLSBSteganography(config)
AncInit ==
    /\ pc = "new"
    /\ cfg \in Configs
    /\ rng = RngSeed(generateSeed(cfg.key))
    /\ cap = NoCap
    /\ stego = NoStego
    /\ got = NoGot
    /\ gen = <<>>
    /\ ins = NoExchange
    /\ ext = NoExchange
    /\ codec = NoCodec
    /\ eng = NoEngines
    /\ parse = NoParse
    /\ fr = NoAnalysis

\* lsb.CalculateCapacity(mp3Data)
AncCapacity ==
    /\ pc = "new"
    /\ \E m \in Carriers :
          cap' = [mp3 |-> m, res |-> AncCalculateCapacity(cfg, m)]
    /\ pc' = "measured"
    /\ UNCHANGED <<cfg, rng, stego, got, gen, ins, ext, codec, eng, parse, fr>>

\* lsb.EmbedInMP3(mp3Data, secretData)
AncEmbed ==
    /\ pc = "new"
    /\ \E m \in Carriers, s \in Secrets :
          stego' = [mp3 |-> m, secret |-> s, res |-> AncEmbedInMP3(cfg, rng, m, s)]
    /\ rng' = stego'.res.rng
    /\ pc' = "embedded"
    /\ UNCHANGED <<cfg, cap, got, gen, ins, ext, codec, eng, parse, fr>>

\* ExtractFromMP3 on the embed output, by the same engine or by a new one
\* made with the key k and otherwise the same config
AncExtract ==
    /\ pc = "embedded"
    /\ stego.res.err = "ok"
    /\ \E k \in Keys, fresh \in BOOLEAN :
          /\ (k # cfg.key => fresh)
          /\ got' = [key |-> k,
                     res |-> AncExtractFromMP3([cfg EXCEPT !.key = k],
                                 IF fresh THEN RngSeed(generateSeed(k)) ELSE rng,
                                 stego.res.out)]
    /\ rng' = got'.res.rng
    /\ pc' = "extracted"
    /\ UNCHANGED <<cfg, cap, stego, gen, ins, ext, codec, eng, parse, fr>>

AncNext == AncCapacity \/ AncEmbed \/ AncExtract

Spec == AncInit /\ [][AncNext]_vars

\* ------------------------------------------------------------------------
\* generatePositions of the ancillary engine, called directly
\* ------------------------------------------------------------------------

PosInit ==
    /\ pc = "new"
    /\ cfg \in PosConfigs
    /\ rng = RngSeed(generateSeed(cfg.key))
    /\ cap = NoCap
    /\ stego = NoStego
    /\ got = NoGot
    /\ gen = <<>>
    /\ ins = NoExchange
    /\ ext = NoExchange
    /\ codec = NoCodec
    /\ eng = NoEngines
    /\ parse = NoParse
    /\ fr = NoAnalysis

\* lsb.generatePositions(dataLen, bytesNeeded) on the engine as it is
PosGenerate ==
    /\ Len(gen) < MaxCalls
    /\ \E dataLen \in 0..MaxPosLen, bytesNeeded \in 0..MaxPosLen :
          gen' = Append(gen, [dataLen |-> dataLen, bytesNeeded |-> bytesNeeded,
                              res |-> AncGeneratePositions(cfg, rng, dataLen,
                                                           bytesNeeded)])
    /\ rng' = gen'[Len(gen')].res.rng
    /\ pc' = "called"
    /\ UNCHANGED <<cfg, cap, stego, got, ins, ext, codec, eng, parse, fr>>

\* a second engine made from the same config takes the place of the first
PosNewEngine ==
    /\ pc = "called"
    /\ rng' = RngSeed(generateSeed(cfg.key))
    /\ pc' = "new"
    /\ UNCHANGED <<cfg, cap, stego, got, gen, ins, ext, codec, eng, parse, fr>>

PosNext == PosGenerate \/ PosNewEngine

SpecPos == PosInit /\ [][PosNext]_vars

\* ------------------------------------------------------------------------
\* The service: one insert request, then one extract request
\* ------------------------------------------------------------------------

SvcInit ==
    /\ pc = "idle"
    /\ cfg = InsertConfig(NoExchange.req)
    /\ rng = 0
    /\ cap = NoCap
    /\ stego = NoStego
    /\ got = NoGot
    /\ gen = <<>>
    /\ ins = NoExchange
    /\ ext = NoExchange
    /\ codec = NoCodec
    /\ eng = NoEngines
    /\ parse = NoParse
    /\ fr = NoAnalysis

\* POST /insert
SvcInsert ==
    /\ pc = "idle"
    /\ \E req \in InsertRequests : ins' = [req |-> req, resp |-> InsertMessage(req)]
    /\ pc' = "inserted"
    /\ UNCHANGED <<cfg, rng, cap, stego, got, gen, ext, codec, eng, parse, fr>>

\* POST /extract with the downloaded stego file and the form values of the
\* insert request, or with no key
SvcExtract ==
    /\ pc = "inserted"
    /\ ins.resp.status = 200
    /\ \E k \in {ins.req.key, <<>>} :
          ext' = [req  |-> [ins.req EXCEPT !.audio = ins.resp.body, !.key = k],
                  resp |-> ExtractMessage([ins.req EXCEPT !.audio = ins.resp.body,
                                                          !.key = k])]
    /\ pc' = "extracted"
    /\ UNCHANGED <<cfg, rng, cap, stego, got, gen, ins, codec, eng, parse, fr>>

\* POST /extract with an uploaded file and form values among which are those
\* the handler rejects
SvcExtractOdd ==
    /\ pc = "idle"
    /\ \E req \in OddRequests : ext' = [req |-> req, resp |-> ExtractMessage(req)]
    /\ pc' = "answered"
    /\ UNCHANGED <<cfg, rng, cap, stego, got, gen, ins, codec, eng, parse, fr>>

SvcNext == SvcInsert \/ SvcExtract \/ SvcExtractOdd

SpecSvc == SvcInit /\ [][SvcNext]_vars

\* ------------------------------------------------------------------------
\* The ancillary engine with file names at and past the length ExtractFromMP3
\* accepts, on carriers that have room for them
\* ------------------------------------------------------------------------

\* A 626-byte frame (192 kbit/s at 44.1 kHz), MPEG-1 stereo, part2_3_length
\* all 0: the 590 bytes after the side-info are safe bytes
FrameD == <<255, 251, 176, 0>> \o Rep(0, 32) \o Rep(238, 590)

LongCarriers == {FrameD, FrameD \o FrameA, FrameD \o FrameD}

\* file names of 255 and of 256 bytes
LongFilenames == {Rep(97, 255), Rep(97, 256)}

LongConfigs ==
    [key : {KeyA}, useEncryption : BOOLEAN, useRandomStart : BOOLEAN,
     lsbBits : {3, 4}, filename : LongFilenames]

\* NewMP3AncillaryLSBSteganography(config)
LongInit ==
    /\ pc = "new"
    /\ cfg \in LongConfigs
    /\ rng = RngSeed(generateSeed(cfg.key))
    /\ cap = NoCap
    /\ stego = NoStego
    /\ got = NoGot
    /\ gen = <<>>
    /\ ins = NoExchange
    /\ ext = NoExchange
    /\ codec = NoCodec
    /\ eng = NoEngines
    /\ parse = NoParse
    /\ fr = NoAnalysis

\* lsb.EmbedInMP3(mp3Data, secretData)
LongEmbed ==
    /\ pc = "new"
    /\ \E m \in LongCarriers, s \in Secrets :
          stego' = [mp3 |-> m, secret |-> s, res |-> AncEmbedInMP3(cfg, rng, m, s)]
    /\ rng' = stego'.res.rng
    /\ pc' = "embedded"
    /\ UNCHANGED <<cfg, cap, got, gen, ins, ext, codec, eng, parse, fr>>

\* ExtractFromMP3 on the embed output, by the same engine or by a new one
\* made with the same config
LongExtract ==
    /\ pc = "embedded"
    /\ stego.res.err = "ok"
    /\ \E fresh \in BOOLEAN :
          got' = [key |-> cfg.key,
                  res |-> AncExtractFromMP3(cfg,
                              IF fresh THEN RngSeed(generateSeed(cfg.key)) ELSE rng,
                              stego.res.out)]
    /\ rng' = got'.res.rng
    /\ pc' = "extracted"
    /\ UNCHANGED <<cfg, cap, stego, gen, ins, ext, codec, eng, parse, fr>>

LongNext == LongEmbed \/ LongExtract

SpecLong == LongInit /\ [][LongNext]_vars

\* the frames the parser finds in a byte stream
FramesOf(mp3Data) == ParseMP3File(mp3Data).Frames

\* L: the total length of the safe views of a byte stream's frames
SafeTotal(mp3Data) == Len(AllSafeBytes(FrameRegions(FramesOf(mp3Data))))

\* ------------------------------------------------------------------------
\* Two calls that run in parallel, each on an engine of its own.  A call is
\* cut where it touches its engine's rng: lsb.rng.Seed and every lsb.rng.Intn
\* of generatePositions are steps of their own, and the steps of the two
\* calls interleave in every order.
\* ------------------------------------------------------------------------

\* A 96-byte MPEG-2 mono frame with a part2_3_length of 376 bits: 9 side-info
\* bytes, 47 main-data bytes and 36 safe bytes
FrameE == <<255, 243, 20, 192>> \o <<0, 11, 192>> \o Rep(0, 6)
            \o Rep(170, 47) \o Rep(153, 36)

Engines == {1, 2}

ParConfigs ==
    [key : Keys, useEncryption : {FALSE}, useRandomStart : BOOLEAN,
     lsbBits : {4}, filename : {<<48>>}]

\* the stego file the extract calls are given: "1" embedded under KeyA at
\* random positions
StegoE ==
    AncEmbedInMP3([key |-> KeyA, useEncryption |-> FALSE, useRandomStart |-> TRUE,
                   lsbBits |-> 4, filename |-> <<48>>],
                  RngSeed(generateSeed(KeyA)), FrameE, <<49>>).out

\* the calls: EmbedInMP3(mp3, secret) and ExtractFromMP3(mp3)
ParCalls ==
    {[kind |-> "embed", mp3 |-> FrameE, secret |-> <<49>>],
     [kind |-> "extract", mp3 |-> StegoE, secret |-> <<>>]}

\* NewMP3AncillaryLSBSteganography(config), and the call made on the engine:
\* lp holds the engine's rng and the locals allPositions and used of its
\* generatePositions, dataLen the len(allSafeBytes) it is called with
NewEngine(c, call) ==
    [cfg |-> c, call |-> call, at |-> "new", dataLen |-> 0,
     lp |-> [rng |-> RngSeed(generateSeed(c.key)), pos |-> <<>>, used |-> {}],
     res |-> [err |-> "none"]]

\* an engine that draws from the rng of the first engine
SharedRng(engines, e) == engines[1].lp.rng

\* lsb.rng of the engine e
EngineRng(engines, e) == engines[e].lp.rng

\* the call reaches generatePositions: none of the checks before it fails
ReachesPositions(x) ==
    IF x.call.kind = "embed"
    THEN /\ AncCalculateCapacity(x.cfg, x.call.mp3).err = "ok"
         /\ ~PayloadTooLarge(
                Len(AncPayload(x.cfg, Envelope(x.cfg.filename, x.call.secret))),
                AncCalculateCapacity(x.cfg, x.call.mp3).capacity)
         /\ BytesNeeded(Len(AncPayload(x.cfg, Envelope(x.cfg.filename, x.call.secret))),
                        x.cfg.lsbBits) <= SafeTotal(x.call.mp3)
    ELSE ~ParseMP3File(x.call.mp3).err /\ SafeTotal(x.call.mp3) > 0

\* what the call returns when it is made on its engine with nothing else
\* running
RunAlone(x) ==
    IF x.call.kind = "embed"
    THEN AncEmbedInMP3(x.cfg, RngSeed(generateSeed(x.cfg.key)), x.call.mp3,
                       x.call.secret)
    ELSE AncExtractFromMP3(x.cfg, RngSeed(generateSeed(x.cfg.key)), x.call.mp3)

\* the call from the return of generatePositions on, g being what it returned
ParFinish(x, g) ==
    IF x.call.kind = "embed"
    THEN AncEmbedAt(x.cfg, AncPayload(x.cfg, Envelope(x.cfg.filename, x.call.secret)),
                    ParseMP3File(x.call.mp3), FrameRegions(FramesOf(x.call.mp3)),
                    AllSafeBytes(FrameRegions(FramesOf(x.call.mp3))),
                    TakePositions(g,
                        BytesNeeded(Len(AncPayload(x.cfg,
                                            Envelope(x.cfg.filename, x.call.secret))),
                                    x.cfg.lsbBits)))
    ELSE AncExtractAt(x.cfg, AllSafeBytes(FrameRegions(FramesOf(x.call.mp3))),
                      TakePositions(g, SafeTotal(x.call.mp3)))

\* two engines, a call made on each
ParInit ==
    /\ pc = "new"
    /\ cfg = InsertConfig(NoExchange.req)
    /\ rng = 0
    /\ cap = NoCap
    /\ stego = NoStego
    /\ got = NoGot
    /\ gen = <<>>
    /\ ins = NoExchange
    /\ ext = NoExchange
    /\ codec = NoCodec
    /\ \E c1 \in {c \in ParConfigs : c.key = KeyA /\ c.useRandomStart},
          c2 \in ParConfigs, call1, call2 \in ParCalls :
          eng = <<NewEngine(c1, call1), NewEngine(c2, call2)>>
    /\ parse = NoParse
    /\ fr = NoAnalysis

\* the call of engine e up to its generatePositions: it returns an error, or
\* goes on to generate positions
ParBegin(e) ==
    /\ eng[e].at = "new"
    /\ eng' = [eng EXCEPT ![e] =
                  IF ~ReachesPositions(eng[e])
                  THEN [eng[e] EXCEPT !.at = "done", !.res = RunAlone(eng[e])]
                  ELSE [eng[e] EXCEPT !.at = IF eng[e].cfg.useRandomStart
                                             THEN "seed" ELSE "return",
                                      !.dataLen = SafeTotal(eng[e].call.mp3)]]
    /\ UNCHANGED <<pc, cfg, rng, cap, stego, got, gen, ins, ext, codec, parse, fr>>

\* lsb.rng.Seed(seed); used and allPositions are made
ParSeed(e) ==
    /\ eng[e].at = "seed"
    /\ eng' = [eng EXCEPT ![e].at = "draw",
                          ![e].lp = [rng |-> AncReseed(eng[e].cfg, EngineRng(eng, e)),
                                     pos |-> <<>>, used |-> {}]]
    /\ UNCHANGED <<pc, cfg, rng, cap, stego, got, gen, ins, ext, codec, parse, fr>>

\* one iteration of the permutation loop, or its end
ParDraw(e) ==
    /\ eng[e].at = "draw"
    /\ eng' = [eng EXCEPT ![e] =
                  IF Len(eng[e].lp.pos) >= eng[e].dataLen
                  THEN [eng[e] EXCEPT !.at = "return"]
                  ELSE [eng[e] EXCEPT !.lp =
                           DrawIteration([eng[e].lp EXCEPT !.rng = EngineRng(eng, e)],
                                         eng[e].dataLen, eng[e].dataLen)]]
    /\ UNCHANGED <<pc, cfg, rng, cap, stego, got, gen, ins, ext, codec, parse, fr>>

\* generatePositions returns and the call runs to its end
ParReturn(e) ==
    /\ eng[e].at = "return"
    /\ eng' = [eng EXCEPT ![e].at = "done",
                          ![e].res =
                  ParFinish(eng[e],
                      IF eng[e].cfg.useRandomStart
                      THEN [rng |-> eng[e].lp.rng, pos |-> eng[e].lp.pos]
                      ELSE [rng |-> eng[e].lp.rng,
                            pos |-> SequentialPositions(eng[e].dataLen,
                                                        eng[e].dataLen)])]
    /\ UNCHANGED <<pc, cfg, rng, cap, stego, got, gen, ins, ext, codec, parse, fr>>

ParNext == \E e \in Engines : ParBegin(e) \/ ParSeed(e) \/ ParDraw(e) \/ ParReturn(e)

SpecPar == ParInit /\ [][ParNext]_vars

\* ------------------------------------------------------------------------
\* ParseMP3File, one read after another
\* ------------------------------------------------------------------------

\* the most bytes without a sync word put before a frame
MaxJunk == 5

\* k bytes that carry no sync word: 1, 2, ..., k
Junk(k) == [i \in 1..k |-> i]

\* a well-formed ID3v2 block of 5 tag bytes
TagBlock == <<73, 68, 51, 3, 0, 0, 0, 0, 0, 5>> \o <<84, 73, 84, 50, 1>>

\* headers with a sync word and a bitrate index of 0, a bitrate index of 15,
\* a sample-rate index of 3
UnsupportedHeaders == {<<255, 251, 0, 0>>, <<255, 251, 240, 0>>, <<255, 251, 28, 0>>}

\* The files parsed: a frame after k bytes without a sync word, at the start
\* of the file, after an ID3v2 block or after another frame; an unsupported
\* header at the start of the file or after a frame, followed by nothing, by
\* eight bytes or by a frame; an ID3v2 block that is cut short; a frame that
\* is cut short, after its header or later
ParseInputs ==
    {pre \o Junk(k) \o FrameA : pre \in {<<>>, TagBlock, FrameB}, k \in 0..MaxJunk}
        \cup {pre \o h \o rest : pre \in {<<>>, FrameB}, h \in UnsupportedHeaders,
                                  rest \in {<<>>, Rep(0, 8), FrameA}}
        \cup {<<73, 68, 51, 3, 0, 0, 0, 0, 0, 100>> \o FrameA}
        \cup {pre \o SubSeq(FrameA, 1, n) : pre \in {<<>>, FrameB}, n \in {4, 50}}

\* reader := bytes.NewReader(data); mp3File := &MP3File{}
ParseInit ==
    /\ pc = "new"
    /\ cfg = InsertConfig(NoExchange.req)
    /\ rng = 0
    /\ cap = NoCap
    /\ stego = NoStego
    /\ got = NoGot
    /\ gen = <<>>
    /\ ins = NoExchange
    /\ ext = NoExchange
    /\ codec = NoCodec
    /\ eng = NoEngines
    /\ \E data \in ParseInputs : parse = [NoParse EXCEPT !.data = data]
    /\ fr = NoAnalysis

\* ParseMP3File once ReadID3v2 has returned r: it returns the error, or goes
\* on to the frame loop
ParseTagRead(r) ==
    /\ parse' = IF r.err THEN [parse EXCEPT !.err = TRUE]
                ELSE [parse EXCEPT !.ID3v2 = r.id3, !.ID3v2Data = r.id3Data,
                                   !.lp = [pos |-> r.pos, frames |-> <<>>,
                                           done |-> FALSE]]
    /\ pc' = IF r.err THEN "failed" ELSE "frames"

\* ReadID3v2(reader)
ParseTag ==
    /\ pc = "new"
    /\ ParseTagRead(ReadID3v2(parse.data))
    /\ UNCHANGED <<cfg, rng, cap, stego, got, gen, ins, ext, codec, eng, fr>>

\* one iteration of the frame loop: ReadFrameHeader(reader), then break,
\* continue or append
ParseFrame ==
    /\ pc = "frames"
    /\ ~parse.lp.done
    /\ parse' = [parse EXCEPT !.lp = ParseIteration(parse.data, parse.lp)]
    /\ pc' = "frames"
    /\ UNCHANGED <<cfg, rng, cap, stego, got, gen, ins, ext, codec, eng, fr>>

\* return mp3File, nil
ParseReturn ==
    /\ pc = "frames"
    /\ parse.lp.done
    /\ pc' = "parsed"
    /\ UNCHANGED <<cfg, rng, cap, stego, got, gen, ins, ext, codec, eng, parse, fr>>

ParseNext == ParseTag \/ ParseFrame \/ ParseReturn

SpecParse == ParseInit /\ [][ParseNext]_vars

\* ParseMP3File is a call that runs: a step it can take is taken
SpecParseFair == SpecParse /\ WF_vars(ParseNext)

\* ------------------------------------------------------------------------
\* ExtractFromMP3 on carriers that no embed has written
\* ------------------------------------------------------------------------

\* A 96-byte frame whose 60 safe bytes carry the bytes b in their low four
\* bits, in sequence; safe bytes that b does not reach are 0xEE, which reads
\* as 0x77
Written(b) ==
    <<255, 251, 20, 0>> \o Rep(0, 32)
        \o EmbedBits(Rep(238, 60), SequentialPositions(60, 60), bytesToBits(b), 4)

\* The starts of the 30 bytes read back from such a frame at four bits a
\* byte: a filename length of 256, of 200, of 2^32 - 1; a data length of
\* 10 MiB + 1, of 10 MiB; data that end with the buffer, and one byte after
\* it; a filename that leaves room for the data length and no more, and one
\* that leaves three bytes
OddEnvelopes ==
    {<<0, 0, 1, 0>> \o Rep(0, 4),
     <<0, 0, 0, 200>> \o Rep(0, 4),
     Rep(255, 8),
     <<0, 0, 0, 2, 97, 98, 0, 160, 0, 1>>,
     <<0, 0, 0, 2, 97, 98, 0, 160, 0, 0>>,
     <<0, 0, 0, 2, 97, 98, 0, 0, 0, 20>>,
     <<0, 0, 0, 2, 97, 98, 0, 0, 0, 21>>,
     <<0, 0, 0, 22>> \o Rep(97, 22) \o Rep(0, 4),
     <<0, 0, 0, 23>> \o Rep(97, 23) \o Rep(0, 3)}

\* the carriers read: the written frames, alone and after another frame, and
\* the carriers of the embed
ReadCarriers ==
    {Written(b) : b \in OddEnvelopes} \cup {FrameB \o Written(b) : b \in OddEnvelopes}
        \cup Carriers

\* lsb.ExtractFromMP3(mp3Data) on a new engine
AncRead ==
    /\ pc = "new"
    /\ \E m \in ReadCarriers :
          got' = [key |-> cfg.key, mp3 |-> m, res |-> AncExtractFromMP3(cfg, rng, m)]
    /\ rng' = got'.res.rng
    /\ pc' = "read"
    /\ UNCHANGED <<cfg, cap, stego, gen, ins, ext, codec, eng, parse, fr>>

SpecRead == AncInit /\ [][AncRead]_vars

\* ------------------------------------------------------------------------
\* One frame: AnalyzeFrameData, then ReconstructFrameData
\* ------------------------------------------------------------------------

\* the headers of an MPEG-1 stereo, an MPEG-1 mono, an MPEG-2 stereo and an
\* MPEG-2 mono frame: side-info of 32, 17, 17 and 9 bytes
FrameHeads ==
    {DecodeHeader(hb) : hb \in {<<255, 251, 20, 0>>, <<255, 251, 20, 192>>,
                                <<255, 243, 20, 0>>, <<255, 243, 20, 192>>}}

\* side-infos of n bytes: every part2_3_length 0, a few bits set, the first
\* length at its largest, every bit set
SideInfos(n) ==
    {Rep(0, n), <<0, 2, 0>> \o Rep(0, n - 3), <<0, 15, 255>> \o Rep(0, n - 3),
     Rep(255, n)}

\* what follows the side-info: fewer than 20 bytes, 20 bytes, more; all zero,
\* no zero, zeros at the end, zeros inside
Tails ==
    {<<5>>, <<0>>, <<5, 0, 0>>, Rep(0, 19), Rep(9, 19), Rep(9, 20), Rep(0, 20),
     Rep(9, 10) \o Rep(0, 15), Rep(0, 10) \o <<3>> \o Rep(0, 14), Rep(9, 30),
     Rep(9, 8) \o <<0, 0, 7, 0>> \o Rep(0, 20), Rep(7, 60)}

\* the frame data given with the header h: a side-info and a tail, or data
\* that end with or before the side-info
FrameDatas(h) ==
    {si \o t : si \in SideInfos(SideInfoSize(h)), t \in Tails}
        \cup {<<1, 2, 3>>, Rep(1, 9), Rep(0, SideInfoSize(h))}

\* the safe views given back: the one returned, one with every byte changed,
\* none, a shorter one, longer ones
ModifiedSafes(safe) ==
    {safe, [i \in 1..Len(safe) |-> (safe[i] + 1) % 256], <<>>,
     SubSeq(safe, 1, Len(safe) - 1), safe \o <<1, 2>>, Rep(255, Len(safe) + 20)}

FrameInit ==
    /\ pc = "frame"
    /\ cfg = InsertConfig(NoExchange.req)
    /\ rng = 0
    /\ cap = NoCap
    /\ stego = NoStego
    /\ got = NoGot
    /\ gen = <<>>
    /\ ins = NoExchange
    /\ ext = NoExchange
    /\ codec = NoCodec
    /\ eng = NoEngines
    /\ parse = NoParse
    /\ \E h \in FrameHeads : \E d \in FrameDatas(h) :
          fr = [NoAnalysis EXCEPT !.h = h, !.data = d]

\* regions, err := AnalyzeFrameData(frameHeader, frameData)
FrameAnalyze ==
    /\ pc = "frame"
    /\ fr' = [fr EXCEPT !.regions = AnalyzeFrameData(fr.h, fr.data)]
    /\ pc' = IF fr'.regions.err THEN "rejected" ELSE "analyzed"
    /\ UNCHANGED <<cfg, rng, cap, stego, got, gen, ins, ext, codec, eng, parse>>

\* regions.ReconstructFrameData(modifiedSafe)
FrameReconstruct ==
    /\ pc = "analyzed"
    /\ \E m \in ModifiedSafes(GetSafeModificationBytes(fr.regions)) :
          fr' = [fr EXCEPT !.given = m, !.out = ReconstructFrameData(fr.regions, m)]
    /\ pc' = "rebuilt"
    /\ UNCHANGED <<cfg, rng, cap, stego, got, gen, ins, ext, codec, eng, parse>>

FrameNext == FrameAnalyze \/ FrameReconstruct

SpecFrame == FrameInit /\ [][FrameNext]_vars

\* ------------------------------------------------------------------------
\* The cipher and the bit codec, applied to byte sequences
\* ------------------------------------------------------------------------

\* the longest byte sequence built from the sample bytes
MaxBytes == 3

\* byte values at and next to the ends and the middle of the range
ByteSamples == {0, 1, 127, 128, 255}

\* every single byte, and every sequence of up to MaxBytes sample bytes
CodecInputs ==
    {<<v>> : v \in 0..255} \cup UNION {[1..n -> ByteSamples] : n \in 0..MaxBytes}

\* keys: none, one byte, two bytes, ten bytes
CodecKeys == {<<>>, <<0>>, <<255>>, <<1, 200>>, KeyA}

\* bits that do not fill a byte
PartialGroups == {<<>>, <<1>>, <<1, 0, 1, 1, 0, 1, 1>>}

\* NewExtendedVigenere(key), and a byte sequence b
CodecInit ==
    /\ pc = "new"
    /\ cfg = InsertConfig(NoExchange.req)
    /\ rng = 0
    /\ cap = NoCap
    /\ stego = NoStego
    /\ got = NoGot
    /\ gen = <<>>
    /\ ins = NoExchange
    /\ ext = NoExchange
    /\ \E k \in CodecKeys, b \in CodecInputs : codec = [NoCodec EXCEPT !.key = k, !.b = b]
    /\ eng = NoEngines
    /\ parse = NoParse
    /\ fr = NoAnalysis

\* ev.Encrypt(b)
CodecEncrypt ==
    /\ pc = "new"
    /\ codec' = [codec EXCEPT !.enc = Encrypt(codec.key, codec.b)]
    /\ pc' = "encrypted"
    /\ UNCHANGED <<cfg, rng, cap, stego, got, gen, ins, ext, eng, parse, fr>>

\* ev.Decrypt of what Encrypt returned
CodecDecrypt ==
    /\ pc = "encrypted"
    /\ codec' = [codec EXCEPT !.dec = Decrypt(codec.key, codec.enc)]
    /\ pc' = "decrypted"
    /\ UNCHANGED <<cfg, rng, cap, stego, got, gen, ins, ext, eng, parse, fr>>

\* bytesToBits(b)
CodecToBits ==
    /\ pc = "new"
    /\ codec' = [codec EXCEPT !.bits = bytesToBits(codec.b)]
    /\ pc' = "bits"
    /\ UNCHANGED <<cfg, rng, cap, stego, got, gen, ins, ext, eng, parse, fr>>

\* bitsToBytes of what bytesToBits returned, followed by fewer than 8 bits
CodecToBytes ==
    /\ pc = "bits"
    /\ \E extra \in PartialGroups :
          codec' = [codec EXCEPT !.bits = codec.bits \o extra,
                                 !.bytes = bitsToBytes(codec.bits \o extra)]
    /\ pc' = "bytes"
    /\ UNCHANGED <<cfg, rng, cap, stego, got, gen, ins, ext, eng, parse, fr>>

CodecNext == CodecEncrypt \/ CodecDecrypt \/ CodecToBits \/ CodecToBytes

SpecCodec == CodecInit /\ [][CodecNext]_vars

\* ------------------------------------------------------------------------
\* Properties
\* ------------------------------------------------------------------------

\* side_info_size + main_bytes of a frame
AudioBytes(frame) == SideInfoSize(frame.Header) + MainBytes(frame.Header, frame.Data)

\* the frames after have the header bytes, the data length and the side-info
\* and main-data bytes of the frames before
FramesKept(before, after) ==
    /\ Len(after) = Len(before)
    /\ \A i \in 1..Len(before) :
          /\ after[i].HeaderBytes = before[i].HeaderBytes
          /\ Len(after[i].Data) = Len(before[i].Data)
          /\ SubSeq(after[i].Data, 1, AudioBytes(before[i]))
                = SubSeq(before[i].Data, 1, AudioBytes(before[i]))

\* the embed of the ancillary engine has succeeded
Embedded == pc \in {"embedded", "extracted"} /\ stego.res.err = "ok"

\* C1: ExtractFromMP3 of the ancillary engine, run with the configuration of
\* the embed on the unmodified embed output (by the embedding engine or by a
\* new one), returns the embedded secret bytes and the embedded filename.
AncRoundTrip ==
    (pc = "extracted" /\ got.key = cfg.key) =>
        /\ got.res.err = "ok"
        /\ got.res.data = stego.secret
        /\ got.res.filename = cfg.filename

\* a twelve-byte secret came back from a carrier it changed, embedded with
\* encryption at random positions
AncRoundTripWitness ==
    /\ pc = "extracted"
    /\ got.key = cfg.key
    /\ cfg.useEncryption /\ cfg.useRandomStart
    /\ Len(stego.secret) = 12
    /\ stego.res.out # stego.mp3
    /\ got.res.data = stego.secret

\* C2: a file InsertMessage produced, given unmodified to ExtractMessage with
\* the same key, use_encryption, use_random_start and lsb_bits, yields the
\* secret bytes and the secret's file name.
SvcRoundTrip ==
    (pc = "extracted" /\ ext.req.key = ins.req.key) =>
        /\ ext.resp.status = 200
        /\ ext.resp.body = ins.req.secret
        /\ ext.resp.filename = ins.req.filename

\* C3: whenever EmbedInMP3 succeeds, its output is as long as its input.
LengthPreserved ==
    Embedded => Len(stego.res.out) = Len(stego.mp3)

\* C4: EmbedInMP3 of the ancillary engine leaves every frame's 4 header bytes
\* and the first side_info_size + main_bytes bytes of every frame's data as
\* they were; only ancillary and padding bytes may differ.
AncEmbedKeepsAudio ==
    Embedded => FramesKept(FramesOf(stego.mp3), FramesOf(stego.res.out))

\* an embed changed a carrier that has a frame with main data
AncEmbedKeepsAudioWitness ==
    /\ Embedded
    /\ stego.res.out # stego.mp3
    /\ \E i \in 1..Len(FramesOf(stego.mp3)) :
          AudioBytes(FramesOf(stego.mp3)[i]) > SideInfoSize(FramesOf(stego.mp3)[i].Header)

\* C5: the stego MP3 InsertMessage returns has every frame's side-info and
\* main-data bytes identical to the input's; it differs only in the
\* ancillary and padding bytes.
SvcInsertKeepsAudio ==
    ins.resp.status = 200 =>
        FramesKept(FramesOf(ins.req.audio), FramesOf(ins.resp.body))

\* C6: when the input begins with an ID3v2 block, the embed output begins
\* with the same 10 header bytes and the same tag bytes, whatever the four
\* size bytes are.
ID3v2Preserved ==
    (Embedded /\ SubSeq(stego.mp3, 1, 3) = <<73, 68, 51>>) =>
        SubSeq(stego.res.out, 1, 10 + syncSafeToInt(SubSeq(stego.mp3, 7, 10)))
            = SubSeq(stego.mp3, 1, 10 + syncSafeToInt(SubSeq(stego.mp3, 7, 10)))

\* C7, as claimed: CalculateCapacity returns floor(L * lsb_bits / 8) - 8 for
\* every carrier, also where floor(L * lsb_bits / 8) is less than 8.
CapacityIsFormula ==
    (pc = "measured" /\ ~ParseMP3File(cap.mp3).err) =>
        /\ cap.res.err = "ok"
        /\ cap.res.capacity = (SafeTotal(cap.mp3) * cfg.lsbBits) \div 8 - 8

\* C7, amended: CalculateCapacity returns floor(L * lsb_bits / 8) - 8 where
\* floor(L * lsb_bits / 8) is at least 8, and an error where it is less.
CapacityIsFormulaOrError ==
    (pc = "measured" /\ ~ParseMP3File(cap.mp3).err) =>
        IF (SafeTotal(cap.mp3) * cfg.lsbBits) \div 8 >= 8
        THEN /\ cap.res.err = "ok"
             /\ cap.res.capacity = (SafeTotal(cap.mp3) * cfg.lsbBits) \div 8 - 8
        ELSE /\ cap.res.err # "ok"
             /\ cap.res.capacity = 0

\* a carrier with safe bytes, but too few for the two length fields
CapacityIsFormulaOrErrorWitness ==
    /\ pc = "measured"
    /\ SafeTotal(cap.mp3) > 0
    /\ (SafeTotal(cap.mp3) * cfg.lsbBits) \div 8 < 8
    /\ cap.res.err = "insufficient ancillary data for metadata"

\* C8: whenever |filename| + |data| + 8 exceeds floor(L * lsb_bits / 8) - 8,
\* EmbedInMP3 returns an error and no output bytes, and it has written to no
\* position: the frames are the parsed ones and the rng has not been used.
CapacityExceededFails ==
    (/\ pc = "embedded"
     /\ ~ParseMP3File(stego.mp3).err
     /\ Len(cfg.filename) + Len(stego.secret) + 8
            > (SafeTotal(stego.mp3) * cfg.lsbBits) \div 8 - 8) =>
        /\ stego.res.err # "ok"
        /\ stego.res.out = <<>>
        /\ stego.res.pos = <<>>
        /\ stego.res.frames = FramesOf(stego.mp3)
        /\ rng = RngSeed(generateSeed(cfg.key))

\* an embed was refused although the carrier has room for the length fields
CapacityExceededFailsWitness ==
    /\ pc = "embedded"
    /\ (SafeTotal(stego.mp3) * cfg.lsbBits) \div 8 >= 8
    /\ Len(cfg.filename) + Len(stego.secret) + 8
            > (SafeTotal(stego.mp3) * cfg.lsbBits) \div 8 - 8
    /\ stego.res.err = "secret data too large"

\* an extract with another key than the embed's, the embed having used
\* encryption and random positions
WrongKeyExtract ==
    /\ pc = "extracted"
    /\ got.key # cfg.key
    /\ cfg.useEncryption /\ cfg.useRandomStart

\* the bytes a new engine with the key k reads from the embed output and
\* decrypts
BufferUnder(k) ==
    Decrypt(k,
        bitsToBytes(ExtractBits(AllSafeBytes(FrameRegions(FramesOf(stego.res.out))),
            AncGeneratePositions([cfg EXCEPT !.key = k], 0, SafeTotal(stego.res.out),
                                 SafeTotal(stego.res.out)).pos,
            SafeTotal(stego.res.out), cfg.lsbBits,
            SafeTotal(stego.res.out) * cfg.lsbBits)))

\* the lengths a buffer of at least 8 bytes holds are within the bounds
LengthsInBounds(buf) ==
    /\ Uint32(SubSeq(buf, 1, 4)) <= 255
    /\ 8 + Uint32(SubSeq(buf, 1, 4)) <= Len(buf)
    /\ Uint32(SubSeq(buf, 5 + Uint32(SubSeq(buf, 1, 4)),
                     8 + Uint32(SubSeq(buf, 1, 4)))) <= 10 * 1024 * 1024
    /\ 8 + Uint32(SubSeq(buf, 1, 4))
         + Uint32(SubSeq(buf, 5 + Uint32(SubSeq(buf, 1, 4)),
                         8 + Uint32(SubSeq(buf, 1, 4)))) <= Len(buf)

\* C9, as claimed: an extract with another key than the embed's never
\* returns a secret; it ends with an invalid-length or insufficient-data
\* error.
WrongKeyFails ==
    WrongKeyExtract =>
        got.res.err \in {"invalid filename length", "invalid data length",
                         "insufficient extracted data",
                         "insufficient extracted data for filename",
                         "insufficient extracted data for basic metadata"}

\* C9, amended: an extract with another key than the embed's ends with an
\* invalid-length or insufficient-data error and returns nothing if the
\* lengths in the wrongly decrypted buffer are out of bounds; if they are
\* within the bounds it returns, without error, the bytes of that buffer
\* which they delimit.
WrongKeyFailsOutOfBounds ==
    WrongKeyExtract =>
        IF Len(BufferUnder(got.key)) >= 8 /\ LengthsInBounds(BufferUnder(got.key))
        THEN /\ got.res.err = "ok"
             /\ got.res.filename
                   = SubSeq(BufferUnder(got.key), 5, 4 + Len(got.res.filename))
             /\ got.res.data
                   = SubSeq(BufferUnder(got.key), 9 + Len(got.res.filename),
                            8 + Len(got.res.filename) + Len(got.res.data))
             /\ Len(got.res.filename) = Uint32(SubSeq(BufferUnder(got.key), 1, 4))
        ELSE /\ got.res.err \in {"invalid filename length", "invalid data length",
                                 "insufficient extracted data",
                                 "insufficient extracted data for filename",
                                 "insufficient extracted data for basic metadata"}
             /\ got.res.data = <<>>
             /\ got.res.filename = <<>>

\* an extract with the other key returned bytes that are not the secret
WrongKeyFailsOutOfBoundsWitness ==
    /\ WrongKeyExtract
    /\ got.res.err = "ok"
    /\ got.res.data # stego.secret

\* C10: on one carrier length L, generatePositions(L, n1) is the first n1
\* elements of generatePositions(L, n2) for n1 <= n2 (all of them when there
\* are fewer), whichever call is made first and whether or not a new engine
\* is made in between.
PrefixStable ==
    \A i, j \in 1..Len(gen) :
        (gen[i].dataLen = gen[j].dataLen /\ gen[i].bytesNeeded <= gen[j].bytesNeeded) =>
            gen[i].res.pos
                = SubSeq(gen[j].res.pos, 1, Min(gen[i].bytesNeeded, Len(gen[j].res.pos)))

\* two random-mode calls on one engine, the second asking for more positions
PrefixStableWitness ==
    /\ cfg.useRandomStart
    /\ Len(gen) = 2
    /\ pc = "called"
    /\ gen[1].dataLen = gen[2].dataLen
    /\ gen[1].bytesNeeded >= 2
    /\ gen[1].bytesNeeded < gen[2].bytesNeeded
    /\ gen[2].bytesNeeded <= gen[2].dataLen
    /\ gen[1].res.rng # RngSeed(generateSeed(cfg.key))

\* C11: any two generatePositions calls with the same key, use_random_start,
\* L and need return the same sequence, whether they are successive calls on
\* one engine or calls on two engines made from the same config.
PositionsDeterministic ==
    \A i, j \in 1..Len(gen) :
        (gen[i].dataLen = gen[j].dataLen /\ gen[i].bytesNeeded = gen[j].bytesNeeded) =>
            gen[i].res.pos = gen[j].res.pos

\* the same random-mode call made twice on one engine, the second time on an
\* rng the first call has advanced
PositionsDeterministicWitness ==
    /\ cfg.useRandomStart
    /\ pc = "called"
    /\ Len(gen) = 2
    /\ gen[1].dataLen = gen[2].dataLen
    /\ gen[1].dataLen >= 3
    /\ gen[1].bytesNeeded = gen[2].bytesNeeded
    /\ gen[1].bytesNeeded >= 2
    /\ gen[1].res.rng # RngSeed(generateSeed(cfg.key))
    /\ gen[1].res.pos = gen[2].res.pos

\* C12: Decrypt(Encrypt(b, k), k) = b for every byte sequence b and key k, and
\* Encrypt and Decrypt each return as many bytes as they are given, every one
\* of them a byte.
CipherRoundTrip ==
    /\ pc \in {"encrypted", "decrypted"} =>
          /\ Len(codec.enc) = Len(codec.b)
          /\ \A i \in 1..Len(codec.enc) : codec.enc[i] \in 0..255
    /\ pc = "decrypted" =>
          /\ Len(codec.dec) = Len(codec.enc)
          /\ codec.dec = codec.b

\* three bytes came back under a two-byte key: the key was reused within the
\* sequence and a sum passed 255
CipherRoundTripWitness ==
    /\ pc = "decrypted"
    /\ Len(codec.key) = 2
    /\ Len(codec.b) = 3
    /\ codec.b[3] + codec.key[1] > 255
    /\ codec.enc # codec.b
    /\ codec.dec = codec.b

\* C13: bitsToBytes(bytesToBits(b)) = b for every byte sequence b; bytesToBits
\* emits eight bits per byte, the most significant first, and bitsToBytes
\* drops a trailing group of fewer than 8 bits.
BitsRoundTrip ==
    /\ pc = "bits" =>
          /\ Len(codec.bits) = 8 * Len(codec.b)
          /\ \A i \in 1..Len(codec.b) :
                /\ codec.bits[8 * i - 7] = codec.b[i] \div 128
                /\ codec.bits[8 * i] = codec.b[i] % 2
    /\ pc = "bytes" => codec.bytes = codec.b

\* three bytes came back from their bits followed by seven more bits
BitsRoundTripWitness ==
    /\ pc = "bytes"
    /\ Len(codec.b) = 3
    /\ Len(codec.bits) = 8 * Len(codec.b) + 7
    /\ codec.b[1] = 128
    /\ codec.b[3] = 1
    /\ codec.bytes = codec.b

\* buf: the bytes an engine with the key k reads from the embed output,
\* decrypted if encryption is enabled
ExtractedBuffer(k) ==
    AncDecrypted([cfg EXCEPT !.key = k],
        bitsToBytes(ExtractBits(AllSafeBytes(FrameRegions(FramesOf(stego.res.out))),
            AncGeneratePositions([cfg EXCEPT !.key = k], 0, SafeTotal(stego.res.out),
                                 SafeTotal(stego.res.out)).pos,
            SafeTotal(stego.res.out), cfg.lsbBits,
            SafeTotal(stego.res.out) * cfg.lsbBits)))

\* n = u32_be(buf[0..4])
FilenameLengthIn(buf) == Uint32(SubSeq(buf, 1, 4))

\* m = u32_be(buf[4+n..8+n])
DataLengthIn(buf) ==
    Uint32(SubSeq(buf, 5 + FilenameLengthIn(buf), 8 + FilenameLengthIn(buf)))

\* what the claim says of the result res of an extract that has read buf
EnvelopeAnswer(buf, res) ==
    IF Len(buf) >= 8 /\ LengthsInBounds(buf)
    THEN /\ res.err = "ok"
         /\ res.filename = SubSeq(buf, 5, 4 + FilenameLengthIn(buf))
         /\ res.data = SubSeq(buf, 9 + FilenameLengthIn(buf),
                              8 + FilenameLengthIn(buf) + DataLengthIn(buf))
    ELSE /\ res.err # "ok"
         /\ res.data = <<>>
         /\ res.filename = <<>>

\* C14: with buf the extracted (and, if enabled, decrypted) bytes, n and m the
\* two lengths read from it, ExtractFromMP3 fails if n > 255, if m > 10 MiB or
\* if 8 + n + m > |buf|, and returns neither data nor filename then; otherwise
\* it returns exactly filename = buf[4..4+n] and data = buf[8+n..8+n+m].
EnvelopeValidated ==
    pc = "extracted" => EnvelopeAnswer(ExtractedBuffer(got.key), got.res)

\* an extract was refused for its third reason: both lengths are within their
\* bounds, but the buffer is shorter than they say
EnvelopeValidatedWitness ==
    /\ pc = "extracted"
    /\ FilenameLengthIn(ExtractedBuffer(got.key)) <= 255
    /\ 8 + FilenameLengthIn(ExtractedBuffer(got.key)) <= Len(ExtractedBuffer(got.key))
    /\ DataLengthIn(ExtractedBuffer(got.key)) <= 10 * 1024 * 1024
    /\ DataLengthIn(ExtractedBuffer(got.key)) > 0
    /\ 8 + FilenameLengthIn(ExtractedBuffer(got.key))
         + DataLengthIn(ExtractedBuffer(got.key)) > Len(ExtractedBuffer(got.key))
    /\ got.res.err = "insufficient extracted data"

\* C15: every envelope EmbedInMP3 writes has filename_length <= 255 and
\* data_length <= 10 MiB, so that ExtractFromMP3 under the same configuration
\* never rejects what EmbedInMP3 has produced.
EmbeddedEnvelopeInBounds ==
    /\ Embedded =>
          /\ Len(cfg.filename) <= 255
          /\ Len(stego.secret) <= 10 * 1024 * 1024
    /\ (pc = "extracted" /\ got.key = cfg.key) => got.res.err = "ok"

\* what CalculateCapacity returns for the measured carrier with one more
\* lsb bit
CapacityWithOneMoreBit ==
    AncCalculateCapacity([cfg EXCEPT !.lsbBits = cfg.lsbBits + 1], cap.mp3)

\* C16: for every carrier and every k in 1..3, the capacity reported with
\* lsb_bits = k is at most the capacity reported with lsb_bits = k + 1, and a
\* capacity reported without error at k is reported without error at k + 1.
CapacityMonotone ==
    (pc = "measured" /\ cfg.lsbBits < 4) =>
        /\ cap.res.capacity <= CapacityWithOneMoreBit.capacity
        /\ cap.res.err = "ok" => CapacityWithOneMoreBit.err = "ok"

\* a carrier too small for the length fields at lsb_bits = k has a capacity
\* above 0 at k + 1
CapacityMonotoneWitness ==
    /\ pc = "measured"
    /\ cfg.lsbBits < 4
    /\ cap.res.err = "insufficient ancillary data for metadata"
    /\ CapacityWithOneMoreBit.err = "ok"
    /\ CapacityWithOneMoreBit.capacity > cap.res.capacity

\* the request has no key, a key of more than 256 bytes or lsb_bits outside 1..4
InvalidConfig(req) ==
    req.key = <<>> \/ Len(req.key) > 256 \/ req.lsbBits < 1 \/ req.lsbBits > 4

\* the message of the first of these checks that fails
ConfigMessage(req) ==
    IF req.key = <<>> THEN "Key is required"
    ELSE IF Len(req.key) > 256 THEN "Invalid key"
    ELSE "LSB bits must be between 1 and 4"

\* an exchange whose request has an invalid configuration ended with the 400
\* response of the failed check and with no body
RejectedOnConfig(x) ==
    InvalidConfig(x.req) => x.resp = ErrorResponse(400, ConfigMessage(x.req))

\* C17: an insert or extract request with an empty key, a key longer than 256
\* bytes or lsb_bits outside 1..4 is answered with the error of that check,
\* whatever the uploaded file is: the file is not parsed and no engine
\* operation runs before the check.
ConfigValidatedFirst ==
    /\ pc \in {"inserted", "extracted"} => RejectedOnConfig(ins)
    /\ pc \in {"extracted", "answered"} => RejectedOnConfig(ext)

\* an insert request with lsb_bits = 5 and a file AnalyzeMP3 fails on was
\* answered with 400
ConfigValidatedFirstWitness ==
    /\ pc = "inserted"
    /\ ValidateKey(ins.req.key) = "ok"
    /\ ins.req.lsbBits = 5
    /\ ins.req.ext = ".mp3"
    /\ AnalyzeMP3(ins.req.audio) # "ok"
    /\ ins.resp.status = 400

\* what the calls have generated and returned is what they generate and
\* return alone
SameAsAlone ==
    \A e \in Engines :
        /\ (eng[e].at \in {"return", "done"} /\ eng[e].cfg.useRandomStart
                /\ eng[e].dataLen > 0) =>
              eng[e].lp.pos
                = AncGeneratePositions(eng[e].cfg, 0, eng[e].dataLen,
                                       eng[e].dataLen).pos
        /\ eng[e].at = "done" => eng[e].res = RunAlone(eng[e])

\* a step of the permutation loop of one call leaves the other engine as it
\* is, and what it does to its own engine's rng, allPositions and used
\* depends on these alone
StepsOnOwnEngine ==
    \A e \in Engines :
        (eng[e].at = "draw" /\ eng'[e] # eng[e]) =>
            /\ \A o \in Engines \ {e} : eng'[o] = eng[o]
            /\ eng'[e].lp = DrawIteration(eng[e].lp, eng[e].dataLen, eng[e].dataLen)

\* C18: two calls that run in parallel on engines of their own do not
\* interfere: every step of a call reads and writes its own engine only, and
\* under every interleaving of the steps the positions a call's
\* generatePositions has generated and the result the call returns are those
\* of the same call run alone.
CallsIsolated == []SameAsAlone /\ [][StepsOnOwnEngine]_vars

\* an embed under KeyA has returned while an extract under KeyB, on the
\* other engine, is in the middle of its permutation loop
CallsIsolatedWitness ==
    /\ eng # NoEngines
    /\ eng[1].at = "done"
    /\ eng[1].call.kind = "embed"
    /\ eng[1].res.err = "ok"
    /\ eng[2].at = "draw"
    /\ eng[2].cfg.key = KeyB
    /\ eng[2].call.kind = "extract"
    /\ Len(eng[2].lp.pos) > 0
    /\ Len(eng[2].lp.pos) < eng[2].dataLen

\* the reader is at a header with a sync word whose bitrate index is 0 or 15
\* or whose sample-rate index is 3
AtUnsupportedHeader ==
    /\ pc = "frames"
    /\ ~parse.lp.done
    /\ Len(parse.data) - parse.lp.pos >= 4
    /\ HasSync(Slice(parse.data, parse.lp.pos, parse.lp.pos + 4))
    /\ \/ DecodeHeader(Slice(parse.data, parse.lp.pos, parse.lp.pos + 4)).Bitrate = 0
       \/ DecodeHeader(Slice(parse.data, parse.lp.pos, parse.lp.pos + 4)).SampleRate = 0

\* C19: a frame header with a valid sync word and a free or reserved bitrate
\* index or a reserved sample-rate index makes ParseMP3File fail as a whole:
\* once it has read such a header it reads no further, and it returns an
\* error and no parsed structure.
UnsupportedHeaderFailsParse ==
    [][AtUnsupportedHeader => (parse'.lp.done /\ parse'.err)]_vars

\* C20: a valid frame at the end of the file is found and returned by
\* ParseMP3File whatever the number of bytes without a sync word before it,
\* a multiple of 4 or not.
ResyncFindsFrame ==
    (/\ pc = "parsed"
     /\ Len(parse.data) >= Len(FrameA)
     /\ SubSeq(parse.data, Len(parse.data) - Len(FrameA) + 1, Len(parse.data)) = FrameA) =>
        /\ Len(parse.lp.frames) > 0
        /\ FrameBytes(parse.lp.frames, Len(parse.lp.frames)) = FrameA

\* bit j (0 = least significant) of the byte b
BitOf(b, j) == (b \div (2 ^ j)) % 2

\* the bits EmbedInMP3 embeds: those of the envelope, encrypted if enabled
EmbeddedBits == bytesToBits(AncPayload(cfg, Envelope(cfg.filename, stego.secret)))

\* bit j of safe[pos[i]] is bit i * lsbBits + j of e where e has such a bit,
\* and 0 where it has not
PlacedAt(safe, pos, e, lsbBits) ==
    \A i \in 0..(Len(pos) - 1), j \in 0..(lsbBits - 1) :
        BitOf(safe[pos[i + 1] + 1], j)
            = IF i * lsbBits + j < Len(e) THEN e[i * lsbBits + j + 1] ELSE 0

\* C21: after EmbedInMP3, with P the generated positions and e the bits of
\* the envelope, most significant first, bit j of safe byte S[P[i]] is
\* e[i * lsb_bits + j] wherever that bit exists; in a last, partial group the
\* bits up to lsb_bits that have no envelope bit are 0.
BitsPlaced ==
    Embedded => PlacedAt(stego.res.safe, stego.res.pos, EmbeddedBits, cfg.lsbBits)

\* an unencrypted envelope of 80 bits embedded three bits a byte at random
\* positions: the last group has two bits, and its byte had bit 2 set
BitsPlacedWitness ==
    /\ Embedded
    /\ ~cfg.useEncryption
    /\ cfg.useRandomStart
    /\ cfg.lsbBits = 3
    /\ Len(EmbeddedBits) = 80
    /\ Len(stego.res.pos) = 27
    /\ BitOf(AllSafeBytes(FrameRegions(FramesOf(stego.mp3)))[stego.res.pos[27] + 1], 2) = 1
    /\ BitOf(stego.res.safe[stego.res.pos[27] + 1], 2) = 0

\* the positions p are min(need, L) distinct positions of [0, L)
WellShaped(p, L, need) ==
    /\ Len(p) = Min(need, L)
    /\ \A k \in 1..Len(p) : p[k] \in 0..(L - 1)
    /\ \A k, m \in 1..Len(p) : p[k] = p[m] => k = m

\* C22: for every L >= 0 and need >= 0, generatePositions returns exactly
\* min(need, L) positions, each in [0, L) and none repeated; in sequential
\* mode they are 0, 1, ..., min(need, L) - 1, and in random mode a call with
\* need = L returns a permutation of [0, L).
PositionsWellShaped ==
    \A i \in 1..Len(gen) :
        /\ WellShaped(gen[i].res.pos, gen[i].dataLen, gen[i].bytesNeeded)
        /\ ~cfg.useRandomStart =>
              gen[i].res.pos = [k \in 1..Min(gen[i].bytesNeeded, gen[i].dataLen) |-> k - 1]
        /\ (cfg.useRandomStart /\ gen[i].bytesNeeded = gen[i].dataLen) =>
              {gen[i].res.pos[k] : k \in 1..Len(gen[i].res.pos)} = 0..(gen[i].dataLen - 1)

\* a random-mode call with need = L = MaxPosLen whose result is not in
\* ascending order, and a call that asks for more positions than there are
PositionsWellShapedWitness ==
    /\ cfg.useRandomStart
    /\ Len(gen) = 2
    /\ gen[1].dataLen = MaxPosLen /\ gen[1].bytesNeeded = MaxPosLen
    /\ gen[1].res.pos # [k \in 1..MaxPosLen |-> k - 1]
    /\ gen[2].bytesNeeded > gen[2].dataLen
    /\ gen[2].dataLen >= 2

\* AnalyzeFrameData has returned the regions of a frame whose data are longer
\* than its side-info
FrameAnalyzed ==
    /\ pc \in {"analyzed", "rebuilt"}
    /\ Len(fr.data) > SideInfoSize(fr.h)

\* C23: for a frame whose data are longer than its side-info, the regions of
\* AnalyzeFrameData, side_info ++ main_data ++ ancillary_data ++ padding, are
\* the frame data; padding is the maximal trailing run of 0x00 of the part
\* after main_data, so that ancillary_data is empty or ends with a non-zero
\* byte; the safe view is ancillary_data ++ padding, the part after main_data.
FramePartitioned ==
    FrameAnalyzed =>
        /\ fr.regions.SideInfo \o fr.regions.MainData \o fr.regions.AncillaryData
                \o fr.regions.Padding = fr.data
        /\ Len(fr.regions.SideInfo) = SideInfoSize(fr.h)
        /\ \A k \in 1..Len(fr.regions.Padding) : fr.regions.Padding[k] = 0
        /\ \/ fr.regions.AncillaryData = <<>>
           \/ fr.regions.AncillaryData[Len(fr.regions.AncillaryData)] # 0
        /\ GetSafeModificationBytes(fr.regions)
               = Slice(fr.data, Len(fr.regions.SideInfo) + Len(fr.regions.MainData),
                       Len(fr.data))

\* a frame with main data, with ancillary data that hold a 0x00 and with
\* padding
FramePartitionedWitness ==
    /\ pc = "analyzed"
    /\ Len(fr.data) > SideInfoSize(fr.h)
    /\ Len(fr.regions.MainData) > 0
    /\ Len(fr.regions.Padding) > 0
    /\ \E k \in 1..Len(fr.regions.AncillaryData) : fr.regions.AncillaryData[k] = 0

\* the number of bytes after the side-info
Remaining == Len(fr.data) - SideInfoSize(fr.h)

\* C24 as stated: for every frame given to AnalyzeFrameData at least 20 bytes
\* remain after main_data, that is, the safe view has at least 20 bytes,
\* whatever the part2_3_length fields hold and however short the data after
\* the side-info are.
TwentyBytesReserved ==
    FrameAnalyzed => Len(GetSafeModificationBytes(fr.regions)) >= 20

\* C24, amended: when at least 20 bytes follow the side-info, the safe view
\* has at least 20 bytes whatever the part2_3_length fields hold; when fewer
\* than 20 bytes follow it, main_data is clipped to the bytes that follow
\* only: it has min(ceil(bits / 8), remaining) bytes and the safe view has
\* the rest, which may be none.
TwentyBytesReservedIfPresent ==
    FrameAnalyzed =>
        /\ Remaining >= 20 => Len(GetSafeModificationBytes(fr.regions)) >= 20
        /\ Remaining < 20 =>
              /\ Len(fr.regions.MainData)
                    = Min((SumSeq(ParseSideInfo(fr.h, fr.regions.SideInfo)) + 7) \div 8,
                          Remaining)
              /\ Len(GetSafeModificationBytes(fr.regions))
                    = Remaining - Len(fr.regions.MainData)

\* a side-info that claims more main data than the frame has is clipped to
\* leave exactly 20 bytes of 30
TwentyBytesReservedIfPresentWitness ==
    /\ pc = "analyzed"
    /\ Remaining = 30
    /\ SumSeq(ParseSideInfo(fr.h, fr.regions.SideInfo)) > 8 * 30
    /\ Len(fr.regions.MainData) = 10
    /\ Len(GetSafeModificationBytes(fr.regions)) = 20

\* the number of bytes of the frame before its safe view
AudioLen == Len(fr.regions.SideInfo) + Len(fr.regions.MainData)

\* C25: for the regions AnalyzeFrameData returned for a frame and a modified
\* safe view of any length, ReconstructFrameData returns as many bytes as the
\* frame data had: side_info and main_data as they were, then the safe bytes
\* given, followed by 0x00 when they are fewer than the safe view had and cut
\* when they are more.
ReconstructKeepsSize ==
    pc = "rebuilt" =>
        /\ Len(fr.out) = Len(fr.data)
        /\ \A k \in 1..Len(fr.out) :
              fr.out[k] = IF k <= AudioLen THEN fr.data[k]
                          ELSE IF k - AudioLen <= Len(fr.given) THEN fr.given[k - AudioLen]
                          ELSE 0

\* a frame whose safe view ended with a non-zero byte, rebuilt from a safe
\* view one byte shorter
ReconstructKeepsSizeWitness ==
    /\ pc = "rebuilt"
    /\ Len(fr.data) - AudioLen >= 20
    /\ fr.data[Len(fr.data)] # 0
    /\ Len(fr.given) = Len(fr.data) - AudioLen - 1
    /\ fr.out[Len(fr.out)] = 0

\* the regions of the frames of the carrier, and of the frames of the output
RegionsBefore == FrameRegions(FramesOf(stego.mp3))
RegionsAfter == FrameRegions(FramesOf(stego.res.out))

\* the safe view of the carrier, and that of the output
SafeBefore == AllSafeBytes(RegionsBefore)
SafeAfter == AllSafeBytes(RegionsAfter)

\* the frames analysed as after have their safe views where and as long as
\* the frames analysed as before
SameSafeViews(before, after) ==
    /\ Len(after) = Len(before)
    /\ \A i \in 1..Len(before) :
          /\ Len(GetSafeModificationBytes(after[i]))
                = Len(GetSafeModificationBytes(before[i]))
          /\ Len(after[i].SideInfo) + Len(after[i].MainData)
                = Len(before[i].SideInfo) + Len(before[i].MainData)

\* C26: analysing a frame after the embed gives a safe view of the same
\* length at the same offset as analysing it before, whatever the embedded
\* bytes are and whether the embed lengthens, shortens or removes the
\* trailing run of 0x00; the concatenated safe view of the output has the
\* length L of the carrier's and holds the bytes in the order the embed
\* wrote them.
SafeViewStable ==
    Embedded =>
        /\ SameSafeViews(RegionsBefore, RegionsAfter)
        /\ SafeAfter = stego.res.safe

\* the padding of one frame is longer than it was, that of another shorter
PaddingMoved(before, after) ==
    \E i, j \in 1..Len(before) :
        /\ Len(after[i].Padding) > Len(before[i].Padding)
        /\ Len(after[j].Padding) < Len(before[j].Padding)
        /\ Len(after[j].Padding) > 0

\* an embed after which the padding of one frame is longer than it was and
\* that of another frame shorter
SafeViewStableWitness == Embedded /\ PaddingMoved(RegionsBefore, RegionsAfter)

\* the positions generated, as a set
PositionSet == {stego.res.pos[k] : k \in 1..Len(stego.res.pos)}

\* after differs from before at the positions ps only, and there in the low
\* lsbBits bits only
OnlyLowBitsAt(before, after, ps, lsbBits) ==
    /\ Len(after) = Len(before)
    /\ \A k \in 1..Len(before) :
          /\ after[k] \div (2 ^ lsbBits) = before[k] \div (2 ^ lsbBits)
          /\ (k - 1) \notin ps => after[k] = before[k]

\* C27: EmbedInMP3 changes at most need_bytes = ceil(8 * |envelope| /
\* lsb_bits) bytes of the safe view, only at the generated positions and in
\* each of them only the low lsb_bits bits: the upper 8 - lsb_bits bits of
\* every safe byte, and every safe byte at a position not generated, are as
\* in the input.
EmbedTouchesOnlyLowBits ==
    Embedded =>
        /\ Cardinality(PositionSet)
              <= BytesNeeded(Len(Envelope(cfg.filename, stego.secret)), cfg.lsbBits)
        /\ OnlyLowBitsAt(SafeBefore, SafeAfter, PositionSet, cfg.lsbBits)

\* a byte with upper bits set was changed, and a byte between two generated
\* positions is not at a generated position
ChangedAmongUnchanged(before, after, ps) ==
    /\ \E k \in 1..Len(before) : after[k] # before[k] /\ before[k] >= 4
    /\ \E k \in 2..(Len(before) - 1) :
          (k - 1) \notin ps /\ (k - 2) \in ps /\ k \in ps

\* an embed of two bits a byte at random positions that changed a byte whose
\* upper bits are not all 0 and left a byte between two changed ones alone
EmbedTouchesOnlyLowBitsWitness ==
    /\ Embedded
    /\ cfg.useRandomStart
    /\ cfg.lsbBits = 2
    /\ ChangedAmongUnchanged(SafeBefore, SafeAfter, PositionSet)

\* |envelope| of the embed call
EnvelopeLen == Len(Envelope(cfg.filename, stego.secret))

\* C28: whenever the capacity check of EmbedInMP3 passes, need_bytes =
\* ceil(8 * |envelope| / lsb_bits) is at most L: no embed ends with
\* 'insufficient safe bytes', and generatePositions returns exactly
\* need_bytes positions, enough for every envelope bit.
EveryBitEmbedded ==
    /\ pc \in {"embedded", "extracted"} => stego.res.err # "insufficient safe bytes"
    /\ Embedded =>
          /\ EnvelopeLen <= (Len(stego.res.safe) * cfg.lsbBits) \div 8 - 8
          /\ BytesNeeded(EnvelopeLen, cfg.lsbBits) <= Len(stego.res.safe)
          /\ Len(stego.res.pos) = BytesNeeded(EnvelopeLen, cfg.lsbBits)
          /\ Len(stego.res.pos) * cfg.lsbBits >= 8 * EnvelopeLen

\* an embed of 21 bytes, three bits a byte, where the capacity is 22 bytes:
\* 56 positions for 168 bits
EveryBitEmbeddedWitness ==
    /\ Embedded
    /\ cfg.lsbBits = 3
    /\ EnvelopeLen = 21
    /\ (Len(stego.res.safe) * cfg.lsbBits) \div 8 - 8 = 22
    /\ Len(stego.res.pos) = 56

\* the read [lo:hi] is within a buffer of len bytes
InRange(r) == 0 <= r.lo /\ r.lo <= r.hi /\ r.hi <= r.len

\* res is an error without data, or the two slices of the buffer that were
\* read last: the filename before the data length, the data after it
ErrorOrSlices(reads, res) ==
    /\ \A r \in reads : InRange(r)
    /\ \/ /\ res.err # "ok"
          /\ res.data = <<>> /\ res.filename = <<>>
       \/ /\ res.err = "ok"
          /\ \E r \in reads : r.lo = 4 /\ r.hi = 4 + Len(res.filename)
          /\ \E r \in reads :
                /\ r.lo = 8 + Len(res.filename)
                /\ r.hi = r.lo + Len(res.data)

\* C29: for every carrier and every configuration with lsb_bits in 1..4,
\* ExtractFromMP3 returns an error or slices of the extracted buffer, and no
\* index into the safe view or into the extracted buffer is out of range,
\* whatever filename length and data length the carrier's bits decode to.
ExtractMemorySafe ==
    pc = "read" =>
        ErrorOrSlices(AncExtractReads(cfg, RngSeed(generateSeed(cfg.key)), got.mp3),
                      got.res)

\* a carrier whose bits decode to a filename of 2 bytes and to data of 20
\* bytes, which end where the buffer of 30 bytes ends
ExtractMemorySafeWitness ==
    /\ pc = "read"
    /\ got.res.err = "ok"
    /\ Len(got.res.filename) = 2
    /\ Len(got.res.data) = 20
    /\ [len |-> 30, lo |-> 10, hi |-> 30]
          \in AncExtractReads(cfg, RngSeed(generateSeed(cfg.key)), got.mp3)

\* an iteration of the frame loop has moved the reader forward, not past the
\* end of the input, or has ended the loop
LoopProgress ==
    (pc = "frames" /\ ~parse.lp.done) =>
        /\ parse'.lp.pos <= Len(parse.data)
        /\ parse'.lp.pos > parse.lp.pos \/ parse'.lp.done

\* C30: the parser terminates on every finite input: every iteration of the
\* frame loop of ParseMP3File consumes at least one input byte (a frame, a
\* bad sync, an unsupported header, a short read) or ends the loop at EOF,
\* and ParseMP3File returns.
ParserTerminates ==
    /\ [][LoopProgress]_vars
    /\ <>(pc \in {"parsed", "failed"})

\* a parse has returned after a frame, 24 reads without a sync word and a
\* short read of the last byte
ParserTerminatesWitness ==
    /\ pc = "parsed"
    /\ parse.data = FrameB \o Junk(1) \o FrameA
    /\ Len(parse.lp.frames) = 1
    /\ parse.lp.pos = Len(parse.data)

====
